---- MODULE Spec2Model ----
(***************************************************************************)
(* Presentation pipeline of Direct2DLowLevelGraphicsContext::Pimpl         *)
(* (juce_win32_Direct2DGraphicsContext.cpp, double-buffered asynchronous   *)
(* variant): two Presentation slots, the write index, the atomically       *)
(* published slot pointer, the presenter thread (Pimpl::run), the message  *)
(* queue carrying PresentDoneMessage, and the owning thread's operations.  *)
(***************************************************************************)
EXTENDS Integers, Sequences, FiniteSets, TLC

(***************************************************************************)
(* Bounds of the model                                                     *)
(***************************************************************************)
\* number of frames the caller starts successfully (frameNumber = 1..MaxFrames)
MaxFrames == 2
\* number of graphics-context calls the caller makes within one frame
MaxOps == 3
\* width and height of the buffer on which clip geometries are evaluated
GridW == 3
GridH == 2
\* largest translation, in either direction, of the transforms tried
MaxShift == 1
\* largest coordinate of the points mapped through composed transforms
MaxCoord == 2
\* largest DPI scale factor passed to setScaleFactor
MaxScale == 2
\* largest number of elements of a path handed to pathToGeometrySink
MaxPathLen == 4
\* number of bits the 64-bit unsigned integers of ReadFileFragment are cut to
WordBits == 3

(***************************************************************************)
(* Program constants                                                       *)
(***************************************************************************)
minSize == 1
maxSize == 16384

Slots == {0, 1}
NoSlot == -1

\* HRESULT values the native calls can return
HResults == {"S_OK", "DXGI_STATUS_OCCLUDED", "E_FAIL", "E_UNEXPECTED"}
SUCCEEDED(hr) == hr \in {"S_OK", "DXGI_STATUS_OCCLUDED"}
FAILED(hr) == ~SUCCEEDED(hr)
\* ID2D1RenderTarget::EndDraw: S_OK or an error code
EndDrawResults == {"S_OK", "E_FAIL"}
\* IDXGISwapChain1::Present1
PresentResults == {"S_OK", "DXGI_STATUS_OCCLUDED", "E_FAIL"}

(***************************************************************************)
(* juce::Rectangle<int>, as used by resize / finishRenderAsync             *)
(***************************************************************************)
Rect(x, y, w, h) == [x |-> x, y |-> y, w |-> w, h |-> h]
EmptyRect == Rect(0, 0, 0, 0)
Max(a, b) == IF a >= b THEN a ELSE b
Min(a, b) == IF a <= b THEN a ELSE b
RectRight(r) == r.x + r.w
RectBottom(r) == r.y + r.h
RectIsEmpty(r) == r.w <= 0 \/ r.h <= 0

RectIntersects(a, b) ==
    /\ a.x + a.w > b.x
    /\ a.y + a.h > b.y
    /\ a.x < b.x + b.w
    /\ a.y < b.y + b.h
    /\ a.w > 0 /\ a.h > 0
    /\ b.w > 0 /\ b.h > 0

RectGetIntersection(a, b) ==
    LET nx == Max(a.x, b.x)
        ny == Max(a.y, b.y)
        nw == Min(RectRight(a), RectRight(b)) - nx
        nh == Min(RectBottom(a), RectBottom(b)) - ny
    IN IF nw >= 0 /\ nh >= 0 THEN Rect(nx, ny, nw, nh) ELSE EmptyRect

RectGetUnion(a, b) ==
    IF RectIsEmpty(b) THEN a
    ELSE IF RectIsEmpty(a) THEN b
    ELSE LET nx == Min(a.x, b.x)
             ny == Min(a.y, b.y)
         IN Rect(nx, ny, Max(RectRight(a), RectRight(b)) - nx,
                         Max(RectBottom(a), RectBottom(b)) - ny)

\* Rectangle<int>::leftTopRightBottom
LeftTopRightBottom(l, t, r, b) == Rect(l, t, r - l, b - t)

\* direct2d::rectangleToRECT / RECTToRectangle
rectangleToRECT(r) ==
    [left |-> r.x, top |-> r.y, right |-> RectRight(r), bottom |-> RectBottom(r)]
RECTToRectangle(rc) ==
    LeftTopRightBottom(rc.left, rc.top, rc.right, rc.bottom)

\* RectangleList<int>::getBounds over a list held as a set of rectangles
SetMin(S) == CHOOSE m \in S : \A n \in S : m <= n
SetMax(S) == CHOOSE m \in S : \A n \in S : m >= n
ListGetBounds(rs) ==
    IF rs = {} THEN EmptyRect
    ELSE LET nx == SetMin({r.x : r \in rs})
             ny == SetMin({r.y : r \in rs})
         IN Rect(nx, ny, SetMax({RectRight(r) : r \in rs}) - nx,
                         SetMax({RectBottom(r) : r \in rs}) - ny)

\* RectangleList<int>::add, for lists of pairwise disjoint rectangles:
\* an empty rectangle is ignored, a rectangle already listed replaces itself
ListAdd(rs, r) == IF RectIsEmpty(r) THEN rs ELSE rs \cup {r}

(***************************************************************************)
(* Inputs                                                                  *)
(***************************************************************************)
\* pairwise disjoint rectangles passed to addDeferredRepaint
RepaintRects == {Rect(1, 0, 1, 1), Rect(0, 1, 1, 3)}
\* rectangle lists the OS reports as the window's update region
UpdateRegions == {{}, {Rect(0, 1, 1, 3)}}
\* client rectangles the window can have (GetClientRect: left = top = 0)
ClientRects == {LeftTopRightBottom(0, 0, 0, 0),
                LeftTopRightBottom(0, 0, 20000, 3)}
InitialClientRect == LeftTopRightBottom(0, 0, 20000, 3)

(***************************************************************************)
(* State                                                                   *)
(***************************************************************************)
VARIABLES
    presentations,       \* Pimpl::presentations[2]
    presentationIndex,   \* Pimpl::presentationIndex (the write slot)
    paintedPresentation, \* std::atomic<Presentation*> (NoSlot = nullptr)
    dc,                  \* the device handles of Pimpl (TRUE = non-null)
    colourBrush,         \* the colour and opacity set on Pimpl::colourBrush
    dpiScalingFactor,    \* Pimpl::dpiScalingFactor
    surface,             \* the DPI set on the device context, the swap chain's pixel size
    bufferBounds,        \* Pimpl::bufferBounds
    clientRect,          \* the window's client rectangle (GetClientRect)
    resizing,            \* Pimpl::resizing
    resizeLock,          \* owner.resizeLock: "none", "owner" or "presenter"
    notified,            \* the presenter thread's wait/notify event
    presenterPc,         \* position of Pimpl::run
    presentation,        \* run()'s local: the slot it claimed
    fullPresentDone,     \* run()'s local
    msgQueue,            \* posted PresentDoneMessage objects (slot each carries)
    ownerPc,             \* owning thread: "idle", "async", "sync", "locked", "crashed"
    states,              \* Direct2DLowLevelGraphicsContext::states
    frameCounter,        \* frames started so far (the caller's frame number)
    presentIssued,       \* history: a present call was issued for the slot's frame
    bufferDefined,       \* history: a full present succeeded since the swap
                         \* chain buffers were last created or resized
    deviceLayers,        \* clips and layers pushed on commandListDeviceContext
    layerFault,          \* history: a native pop did not match the last push
    opCount,             \* graphics-context calls made between startAsync/startSync
                         \* and endAsync/endSync so far
    savedTops,           \* history: for each state but the first, what the state
                         \* below it held when saveState was called
    input,               \* the arguments of a function evaluated on its own
    output,              \* its result, once it has been evaluated
    lastCall             \* history: the step just taken, when it was a call of
                         \* addDeferredRepaint or startAsync, or the EndDraw of
                         \* finishRenderAsync, and its result; within a frame,
                         \* the graphics-context call just made

vars == <<presentations, presentationIndex, paintedPresentation, dc, colourBrush,
          dpiScalingFactor, surface, bufferBounds,
          clientRect, resizing, resizeLock, notified, presenterPc, presentation,
          fullPresentDone, msgQueue, ownerPc, states, frameCounter,
          presentIssued, bufferDefined, deviceLayers, layerFault, opCount, savedTops, input, output, lastCall>>

\* everything but the arguments and result of a function evaluated on its own
programVars == <<presentations, presentationIndex, paintedPresentation, dc,
                 colourBrush, dpiScalingFactor, surface, bufferBounds,
                 clientRect, resizing, resizeLock, notified, presenterPc, presentation,
                 fullPresentDone, msgQueue, ownerPc, states, frameCounter,
                 presentIssued, bufferDefined, deviceLayers, layerFault, opCount,
                 savedTops, lastCall>>

\* the native layer stack and its history
nativeVars == <<deviceLayers, layerFault, opCount, savedTops>>

\* a function evaluated on its own: its arguments and its result
calcVars == <<input, output>>
NoInput == [op |-> "none"]
NoOutput == [op |-> "none"]

Call(op, ret) == [op |-> op, ret |-> ret, pops |-> <<>>, slot |-> NoSlot]
NoCall == Call("", "")

\* direct2d::Presentation after construction
NewPresentation ==
    [status |-> "S_OK", commandList |-> FALSE, paintAreas |-> {},
     bufferBounds |-> EmptyRect, dirtyRectangles |-> {}, state |-> "clear"]

\* reset leaving the state field as it is
Reset_KeepsState(p) ==
    [p EXCEPT !.paintAreas = {}, !.dirtyRectangles = {}, !.commandList = FALSE]

\* direct2d::Presentation::reset
Reset(p) ==
    [p EXCEPT !.state = "clear", !.paintAreas = {}, !.dirtyRectangles = {},
              !.commandList = FALSE]

NullDC ==
    [colourBrush |-> FALSE, swapChainBuffer |-> FALSE, swapChain |-> FALSE,
     commandListDeviceContext |-> FALSE, threadDeviceContext |-> FALSE]

\* every device handle is non-null
FullDC == [h \in DOMAIN NullDC |-> TRUE]

\* the DPI set on the device context and the pixel size of the swap chain's
\* buffers, when there is no device context and no swap chain
NoSurface == [dpi |-> 0, width |-> 0, height |-> 0]

\* Pimpl::updateDeviceContextDPI: SetDpi(96 * dpiScalingFactor), when there is a
\* device context (d: the device handles)
updateDeviceContextDPI(sf, d, scale) ==
    IF d.threadDeviceContext THEN [sf EXCEPT !.dpi = 96 * scale] ELSE sf

\* Pimpl::createDeviceContext: the swap chain is created with the width and
\* height of bufferBounds, then updateDeviceContextDPI
NewSurface(scale, bounds) ==
    [dpi |-> 96 * scale, width |-> bounds.w, height |-> bounds.h]

\* Pimpl::resize: ResizeBuffers(bufferBounds * dpiScalingFactor)
ResizedSurface(sf, scale, bounds) ==
    [sf EXCEPT !.width = bounds.w * scale, !.height = bounds.h * scale]

\* the solid colour brush as createDeviceContext creates it: black, opaque
NewColourBrush == [colour |-> "black", opacity |-> "opaque"]

\* Pimpl::resize: the client rectangle clamped to [minSize, maxSize]
ClampedClientRect(cr) ==
    RectGetIntersection(RectGetUnion(cr, Rect(0, 0, minSize, minSize)),
                        Rect(0, 0, maxSize, maxSize))

\* the state after construction, for a window with client rectangle cr whose
\* device handles are d
Constructed(cr, d) ==
    /\ presentations = [s \in Slots |-> NewPresentation]
    /\ presentationIndex = 0
    /\ paintedPresentation = NoSlot
    /\ dc = d
    /\ colourBrush = NewColourBrush
    /\ dpiScalingFactor = 1
    /\ surface = IF d.swapChain THEN NewSurface(1, ClampedClientRect(cr)) ELSE NoSurface
    /\ clientRect = cr
    /\ bufferBounds = ClampedClientRect(cr)
    /\ resizing = FALSE
    /\ resizeLock = "none"
    /\ notified = FALSE
    /\ presenterPc = "wait"
    /\ presentation = NoSlot
    /\ fullPresentDone = FALSE
    /\ msgQueue = <<>>
    /\ ownerPc = "idle"
    /\ states = <<>>
    /\ frameCounter = 0
    /\ presentIssued = [s \in Slots |-> FALSE]
    /\ bufferDefined = FALSE
    /\ deviceLayers = <<>>
    /\ layerFault = FALSE
    /\ opCount = 0
    /\ savedTops = <<>>
    /\ lastCall = NoCall

Init ==
    /\ Constructed(InitialClientRect, NullDC)
    /\ input = NoInput
    /\ output = NoOutput

(***************************************************************************)
(* Procedures of Pimpl, as functions of the values they read               *)
(***************************************************************************)
Other(i) == 1 - i     \* presentationIndex ^ 1

\* the device context's DPI and the swap chain's size over a step that takes the
\* device handles from d0 to d1 by createDeviceContext or releaseDeviceContext
SurfaceAfter(d0, d1) ==
    IF ~d1.swapChain THEN NoSurface
    ELSE IF ~d0.swapChain THEN NewSurface(dpiScalingFactor, bufferBounds)
    ELSE surface

\* Pimpl::colourBrush over a step that takes the device handles from d0 to d1:
\* a brush that is kept keeps what was set on it, createDeviceContext creates a
\* black opaque one, and a released brush is written as a new one
ColourBrushAfter(d0, d1) ==
    IF d0.colourBrush /\ d1.colourBrush THEN colourBrush ELSE NewColourBrush

\* releaseDeviceContext leaving the colour brush of the released device
ReleasedDC_KeepsBrush == [NullDC EXCEPT !.colourBrush = TRUE]

\* Pimpl::releaseDeviceContext: the handles, and the slots
ReleasedDC == NullDC
ReleasedPresentations(ps) == [s \in Slots |-> Reset(ps[s])]

\* Pimpl::createDeviceContext; ok: the native device creation succeeds
createDeviceContext(d, ok) ==
    LET d1 == IF (~d.commandListDeviceContext \/ ~d.threadDeviceContext) /\ ok
              THEN [d EXCEPT !.swapChain = TRUE, !.threadDeviceContext = TRUE,
                             !.commandListDeviceContext = TRUE]
              ELSE d
    IN IF ~d1.colourBrush /\ d1.commandListDeviceContext
       THEN [d1 EXCEPT !.colourBrush = TRUE] ELSE d1

\* Pimpl::createSwapChainBuffer
createSwapChainBuffer(d) ==
    IF d.threadDeviceContext /\ d.swapChain /\ ~d.swapChainBuffer
    THEN [d EXCEPT !.swapChainBuffer = TRUE] ELSE d

\* a new swap chain was created by createDeviceContext
CreatesSwapChain(d, ok) == (~d.commandListDeviceContext \/ ~d.threadDeviceContext) /\ ok

\* isReadyToPaint testing the write slot instead of the alternate one
isReadyToPaint_WriteSlot == presentations[presentationIndex].state = "clear"
\* isReadyToPaint without the back-pressure test
isReadyToPaint_Always == TRUE

\* Pimpl::isReadyToPaint
isReadyToPaint == presentations[Other(presentationIndex)].state = "clear"

\* RenderingHelpers::TranslationOrTransform: an integer offset, or a transform
\* with rotation or shear
IdentityTransform == [x |-> 0, rotated |-> FALSE]
\* FillType(Colours::black), the default FillType
BlackFill == [kind |-> "colour", colour |-> "black", opacity |-> "opaque"]

\* SavedState::SavedState when owner.currentState is null
NewSavedState(d) ==
    [currentTransform |-> IdentityTransform,
     clipRegion |-> IF d.commandListDeviceContext THEN bufferBounds ELSE EmptyRect,
     fillType |-> BlackFill,
     font |-> "default",
     fontHeightToEmSizeFactor |-> "1.0",
     interpolationMode |-> "LINEAR",
     currentBrush |-> "null",
     brushOpacity |-> "none",
     currentFontFace |-> "null",
     pushedLayers |-> <<>>]

\* the copy leaving out the interpolation mode
CopiedSavedState_DefaultInterpolation(prev) ==
    [prev EXCEPT !.pushedLayers = <<>>, !.fontHeightToEmSizeFactor = "1.0",
                 !.interpolationMode = "LINEAR"]

\* SavedState::SavedState when owner.currentState is prev: fill, brush, clip
\* region, transform, font, font face and interpolation mode are copied; the
\* em-size factor and the layer list are not
CopiedSavedState(prev) ==
    [prev EXCEPT !.pushedLayers = <<>>, !.fontHeightToEmSizeFactor = "1.0"]

\* SavedState::pushAxisAlignedClipLayer / pushLayer: nothing without a device context
PushedLayer(s, d, kind) ==
    IF d.commandListDeviceContext
    THEN [s EXCEPT !.pushedLayers = Append(@, kind)] ELSE s

\* SavedState::SavedState for the first state of a frame, followed by
\* clipToRectangle(initialClipBounds) under the identity transform
FirstSavedState(d, initialClipBounds) ==
    IF ~RectIsEmpty(initialClipBounds)
    THEN PushedLayer(NewSavedState(d), d, "AxisAlignedClipLayer")
    ELSE NewSavedState(d)

Reverse(seq) == [k \in 1..Len(seq) |-> seq[Len(seq) + 1 - k]]

\* popLayers popping from index 0 upwards
PopOrder_Forward(layers) == layers

\* SavedState::popLayers: the pop calls it issues, Layer::pop for "Layer" and
\* AxisAlignedClipLayer::pop for "AxisAlignedClipLayer"
PopOrder(layers) == Reverse(layers)

\* the pop calls issued when the states from index `from` up are destroyed,
\* last state first (OwnedArray::removeLast)
RECURSIVE PopCalls(_, _)
PopCalls(sts, from) ==
    IF Len(sts) < from THEN <<>>
    ELSE PopOrder(sts[Len(sts)].pushedLayers) \o PopCalls(SubSeq(sts, 1, Len(sts) - 1), from)

\* the device context's layer stack after a sequence of pop calls: PopLayer
\* must meet a layer pushed by PushLayer, PopAxisAlignedClip one pushed by
\* PushAxisAlignedClip, and EndDraw no layer at all, else the device context is
\* in an error state
RECURSIVE NativePop(_, _)
NativePop(dl, calls) ==
    IF calls = <<>> THEN [layers |-> dl, fault |-> FALSE]
    ELSE IF Head(calls) = "EndDraw"
    THEN IF dl = <<>> THEN NativePop(dl, Tail(calls))
         ELSE [layers |-> dl, fault |-> TRUE]
    ELSE IF dl = <<>> \/ dl[Len(dl)] # Head(calls)
         THEN [layers |-> dl, fault |-> TRUE]
         ELSE NativePop(SubSeq(dl, 1, Len(dl) - 1), Tail(calls))

\* startRenderAsync marking the slot painted as soon as painting starts
PaintingPresentation_AsPainted(p, areas, drawing) ==
    [p EXCEPT !.paintAreas = areas,
              !.state = "painted",
              !.commandList = IF drawing THEN TRUE ELSE @]

\* startRenderAsync: the write slot once painting has started; drawing: a command
\* list was created for the frame
PaintingPresentation(p, areas, drawing) ==
    [p EXCEPT !.paintAreas = areas,
              !.state = "painting",
              !.commandList = IF drawing THEN TRUE ELSE @]

\* the dirty rectangles without the intersection with the buffer bounds
DirtyRectangles_Unclipped(paintAreas, bounds) ==
    {rectangleToRECT(pa) :
        pa \in {a \in paintAreas : ~RectIsEmpty(RectGetIntersection(a, bounds))}}

\* the dirty rectangles of the areas that lie entirely within the buffer bounds
DirtyRectangles_ContainedOnly(paintAreas, bounds) ==
    {rectangleToRECT(pa) :
        pa \in {a \in paintAreas : RectGetIntersection(a, bounds) = a /\ ~RectIsEmpty(a)}}

\* finishRenderAsync: the dirty rectangles of a paint-area list
DirtyRectangles(paintAreas, bounds) ==
    {rectangleToRECT(RectGetIntersection(pa, bounds)) :
        pa \in {a \in paintAreas : ~RectIsEmpty(RectGetIntersection(a, bounds))}}

(***************************************************************************)
(* Operations of the owning (message) thread                               *)
(***************************************************************************)
Alive == ownerPc # "crashed"
OwnerIdle == ownerPc = "idle"

\* Direct2DLowLevelGraphicsContext::addDeferredRepaint
AddDeferredRepaint(r) ==
    /\ UNCHANGED nativeVars
    /\ UNCHANGED calcVars
    /\ OwnerIdle
    /\ presentations' = [presentations EXCEPT ![presentationIndex].paintAreas =
                            ListAdd(@, r)]
    /\ lastCall' = Call("addDeferredRepaint", presentations[presentationIndex].state)
    /\ UNCHANGED <<presentationIndex, paintedPresentation, dc, colourBrush, dpiScalingFactor, surface, bufferBounds, clientRect,
                   resizing, resizeLock, notified, presenterPc, presentation,
                   fullPresentDone, msgQueue, ownerPc, states, frameCounter,
                   presentIssued, bufferDefined>>

\* startAsync returning false before anything is changed
StartAsyncRejected ==
    /\ UNCHANGED nativeVars
    /\ UNCHANGED calcVars
    /\ lastCall' = Call("startAsync", "false")
    /\ UNCHANGED <<presentations, presentationIndex, paintedPresentation, dc, colourBrush, dpiScalingFactor, surface,
                   bufferBounds, clientRect, resizing, resizeLock, notified,
                   presenterPc, presentation, fullPresentDone, msgQueue, ownerPc,
                   states, frameCounter, presentIssued, bufferDefined>>

\* Pimpl::startRenderAsync past the readiness gate, then saveState and
\* clipToRectangle; ur: the update region the OS reports, ok: device creation
StartRenderAsync(ur, ok) ==
    LET i == presentationIndex
        p == presentations[i]
        areas == p.paintAreas \cup {r \in ur : ~RectIsEmpty(r)}
        d == createSwapChainBuffer(createDeviceContext(dc, ok))
        drawing == d.commandListDeviceContext /\ d.swapChainBuffer
    IN IF ur = {} /\ p.paintAreas = {}
       THEN StartAsyncRejected
       ELSE /\ presentations' = [presentations EXCEPT ![i] =
                                        PaintingPresentation(p, areas, drawing)]
            /\ dc' = d
            /\ colourBrush' = ColourBrushAfter(dc, dc')
            /\ surface' = SurfaceAfter(dc, dc')
            /\ UNCHANGED dpiScalingFactor
            /\ bufferDefined' = IF CreatesSwapChain(dc, ok) THEN FALSE ELSE bufferDefined
            /\ presentIssued' = [presentIssued EXCEPT ![i] = FALSE]
            /\ states' = <<FirstSavedState(d, ListGetBounds(areas))>>
            /\ deviceLayers' = FirstSavedState(d, ListGetBounds(areas)).pushedLayers
            /\ UNCHANGED <<layerFault, opCount, savedTops, calcVars>>
            /\ frameCounter' = frameCounter + 1
            /\ ownerPc' = "async"
            /\ lastCall' = Call("startAsync", "true")
            /\ UNCHANGED <<presentationIndex, paintedPresentation, bufferBounds,
                           clientRect, resizing, resizeLock, notified, presenterPc,
                           presentation, fullPresentDone, msgQueue>>

\* startAsync without the test of the resizing flag
blockedByResizing_Never == FALSE

\* startAsync: the test of pimpl->resizing
blockedByResizing == resizing

\* Direct2DLowLevelGraphicsContext::startAsync
StartAsync(ur, ok) ==
    /\ OwnerIdle
    /\ frameCounter < MaxFrames
    /\ IF blockedByResizing THEN StartAsyncRejected
       ELSE IF ~isReadyToPaint THEN StartAsyncRejected
       ELSE StartRenderAsync(ur, ok)

\* Pimpl::finishRenderAsync; hr: the result of EndDraw
FinishRenderAsync(hr) ==
    LET i == presentationIndex
        p == presentations[i]
        paintBounds == ListGetBounds(p.paintAreas)
        published == [p EXCEPT !.state = "painted",
                               !.dirtyRectangles = DirtyRectangles(p.paintAreas, bufferBounds),
                               !.bufferBounds = bufferBounds]
        release == hr # "S_OK" /\ hr # "DXGI_STATUS_OCCLUDED"
    IN IF ~(dc.commandListDeviceContext /\ dc.swapChain)
          \/ FAILED(hr)
          \/ ~RectIntersects(bufferBounds, paintBounds)
          \/ RectIsEmpty(paintBounds)
       THEN UNCHANGED <<presentations, paintedPresentation, presentationIndex,
                        notified, dc, colourBrush, dpiScalingFactor, surface>>
       ELSE /\ presentations' =
                    IF release
                    THEN ReleasedPresentations([presentations EXCEPT ![i] = published])
                    ELSE [presentations EXCEPT ![i] = published]
            /\ paintedPresentation' = i
            /\ presentationIndex' = Other(i)
            /\ notified' = TRUE
            /\ dc' = IF release THEN ReleasedDC ELSE dc
            /\ colourBrush' = ColourBrushAfter(dc, dc')
            /\ surface' = SurfaceAfter(dc, dc')
            /\ UNCHANGED dpiScalingFactor

\* endAsync ending the drawing before it removes the states
EndFrameCalls_EndDrawFirst(sts, drawing) ==
    (IF drawing THEN <<"EndDraw">> ELSE <<>>) \o PopCalls(sts, 1)

\* endAsync / endSync: the calls that reach the device context, in the order
\* they are made: the pops of states.removeLast(1) until no state is left, then
\* EndDraw in finishRenderAsync / finishRenderSync; drawing: there is a device
\* context to end the drawing of
EndFrameCalls(sts, drawing) ==
    PopCalls(sts, 1) \o (IF drawing THEN <<"EndDraw">> ELSE <<>>)

\* endAsync / endSync: states.removeLast(1) until no state is left, then EndDraw
RemoveAllStates(drawing) ==
    /\ states' = <<>>
    /\ savedTops' = <<>>
    /\ deviceLayers' = NativePop(deviceLayers, EndFrameCalls(states, drawing)).layers
    /\ layerFault' = (layerFault
                      \/ NativePop(deviceLayers, EndFrameCalls(states, drawing)).fault)
    /\ UNCHANGED <<opCount, calcVars>>

\* Direct2DLowLevelGraphicsContext::endAsync
EndAsync(hr) ==
    /\ ownerPc = "async"
    /\ RemoveAllStates(dc.commandListDeviceContext /\ dc.swapChain)
    /\ FinishRenderAsync(hr)
    /\ ownerPc' = "idle"
    /\ lastCall' = IF dc.commandListDeviceContext /\ dc.swapChain
                   THEN [Call("EndDraw", hr) EXCEPT
                            !.pops = EndFrameCalls(states, TRUE)]
                   ELSE NoCall
    /\ UNCHANGED <<bufferBounds, clientRect, resizing, resizeLock, presenterPc,
                   presentation, fullPresentDone, msgQueue, frameCounter,
                   presentIssued, bufferDefined>>

\* Direct2DLowLevelGraphicsContext::startSync (Pimpl::startRenderSync, saveState,
\* clipToRectangle(getClientRect()))
StartSync(ok) ==
    /\ OwnerIdle
    /\ frameCounter < MaxFrames
    /\ frameCounter' = frameCounter + 1
    /\ LET d == createSwapChainBuffer(createDeviceContext(dc, ok))
       IN /\ presentations' = [presentations EXCEPT
                                   ![presentationIndex].paintAreas = {}]
          /\ paintedPresentation' = NoSlot
          /\ dc' = d
          /\ colourBrush' = ColourBrushAfter(dc, dc')
          /\ surface' = SurfaceAfter(dc, dc')
          /\ UNCHANGED dpiScalingFactor
          /\ bufferDefined' = IF CreatesSwapChain(dc, ok) THEN FALSE ELSE bufferDefined
          /\ states' = <<FirstSavedState(d, clientRect)>>
          /\ deviceLayers' = FirstSavedState(d, clientRect).pushedLayers
          /\ UNCHANGED <<layerFault, opCount, savedTops, calcVars>>
    /\ ownerPc' = "sync"
    /\ lastCall' = NoCall
    /\ UNCHANGED <<presentationIndex, bufferBounds, clientRect, resizing, resizeLock,
                   notified, presenterPc, presentation, fullPresentDone, msgQueue,
                   presentIssued>>

\* Direct2DLowLevelGraphicsContext::endSync (Pimpl::finishRenderSync); hr: the
\* result of EndDraw, presentOk: Present succeeds.  With no device context the
\* calls go through a null pointer: the process stops, or the call is lost.
EndSync(hr, presentOk) ==
    /\ ownerPc = "sync"
    /\ RemoveAllStates(dc.commandListDeviceContext)
    /\ IF dc.commandListDeviceContext
       THEN /\ ownerPc' = "idle"
            /\ bufferDefined' = IF SUCCEEDED(hr) /\ presentOk THEN TRUE ELSE bufferDefined
       ELSE /\ ownerPc' \in {"idle", "crashed"}
            /\ UNCHANGED bufferDefined
    /\ lastCall' = NoCall
    /\ UNCHANGED <<presentations, presentationIndex, paintedPresentation, dc, colourBrush, dpiScalingFactor, surface,
                   bufferBounds, clientRect, resizing, resizeLock, notified,
                   presenterPc, presentation, fullPresentDone, msgQueue,
                   frameCounter, presentIssued>>

\* Direct2DLowLevelGraphicsContext::startResizing
StartResizing ==
    /\ UNCHANGED nativeVars
    /\ UNCHANGED calcVars
    /\ OwnerIdle
    /\ ~resizing
    /\ resizing' = TRUE
    /\ lastCall' = NoCall
    /\ UNCHANGED <<presentations, presentationIndex, paintedPresentation, dc, colourBrush, dpiScalingFactor, surface,
                   bufferBounds, clientRect, resizeLock, notified, presenterPc,
                   presentation, fullPresentDone, msgQueue, ownerPc, states,
                   frameCounter, presentIssued, bufferDefined>>

\* Direct2DLowLevelGraphicsContext::finishResizing
FinishResizing ==
    /\ UNCHANGED nativeVars
    /\ UNCHANGED calcVars
    /\ OwnerIdle
    /\ resizing
    /\ resizing' = FALSE
    /\ presentations' = [presentations EXCEPT ![presentationIndex].paintAreas = {}]
    /\ lastCall' = NoCall
    /\ UNCHANGED <<presentationIndex, paintedPresentation, dc, colourBrush, dpiScalingFactor, surface, bufferBounds,
                   clientRect, resizeLock, notified, presenterPc, presentation,
                   fullPresentDone, msgQueue, ownerPc, states, frameCounter,
                   presentIssued, bufferDefined>>

\* the window is given another client rectangle by the OS
WindowResized(cr) ==
    /\ UNCHANGED nativeVars
    /\ UNCHANGED calcVars
    /\ OwnerIdle
    /\ cr # clientRect
    /\ clientRect' = cr
    /\ UNCHANGED <<presentations, presentationIndex, paintedPresentation, dc, colourBrush, dpiScalingFactor, surface,
                   bufferBounds, resizing, resizeLock, notified, presenterPc,
                   presentation, fullPresentDone, msgQueue, ownerPc, states,
                   frameCounter, presentIssued, bufferDefined>>
    /\ lastCall' = NoCall

\* the caller of resize() enters owner.resizeLock
AcquireResizeLock ==
    /\ UNCHANGED nativeVars
    /\ UNCHANGED calcVars
    /\ OwnerIdle
    /\ resizeLock = "none"
    /\ resizeLock' = "owner"
    /\ ownerPc' = "locked"
    /\ UNCHANGED <<presentations, presentationIndex, paintedPresentation, dc, colourBrush, dpiScalingFactor, surface,
                   bufferBounds, clientRect, resizing, notified, presenterPc,
                   presentation, fullPresentDone, msgQueue, states, frameCounter,
                   presentIssued, bufferDefined>>
    /\ lastCall' = NoCall

\* resize without the test of the buffer bounds
boundsUnchanged_Never(windowRect) == FALSE

\* Pimpl::resize: the test bufferBounds == windowRect
boundsUnchanged(windowRect) == bufferBounds = windowRect

\* Pimpl::resize, and the caller leaving owner.resizeLock; ok: ResizeBuffers
\* succeeds.  The call records whether it returned at the test.
Resize(ok) ==
    /\ UNCHANGED nativeVars
    /\ UNCHANGED calcVars
    /\ ownerPc = "locked"
    /\ LET windowRect == ClampedClientRect(clientRect)
       IN IF boundsUnchanged(windowRect)
          THEN /\ UNCHANGED <<bufferBounds, dc, colourBrush, dpiScalingFactor, surface, presentations, bufferDefined>>
               /\ lastCall' = Call("resize", "unchanged")
          ELSE /\ bufferBounds' = windowRect
               /\ lastCall' = Call("resize", "resized")
               /\ IF dc.swapChain
                  THEN IF ok
                       THEN /\ dc' = createSwapChainBuffer([dc EXCEPT !.swapChainBuffer = FALSE])
                            /\ colourBrush' = ColourBrushAfter(dc, dc')
                            /\ surface' = ResizedSurface(surface, dpiScalingFactor, windowRect)
                            /\ UNCHANGED dpiScalingFactor
                            /\ bufferDefined' = FALSE
                            /\ UNCHANGED presentations
                       ELSE /\ dc' = ReleasedDC
                            /\ colourBrush' = ColourBrushAfter(dc, dc')
                            /\ surface' = SurfaceAfter(dc, dc')
                            /\ UNCHANGED dpiScalingFactor
                            /\ presentations' = ReleasedPresentations(presentations)
                            /\ UNCHANGED bufferDefined
                  ELSE UNCHANGED <<dc, colourBrush, dpiScalingFactor, surface, presentations, bufferDefined>>
    /\ resizeLock' = "none"
    /\ ownerPc' = "idle"
    /\ UNCHANGED <<presentationIndex, paintedPresentation, clientRect, resizing,
                   notified, presenterPc, presentation, fullPresentDone, msgQueue,
                   states, frameCounter, presentIssued>>

\* finishPresentation taking every status but S_OK for a failure
presentFailed_NotOk(status) == status # "S_OK"

\* finishPresentation: the test of completedPresentation->status
presentFailed(status) == status # "S_OK" /\ status # "DXGI_STATUS_OCCLUDED"

\* PresentDoneMessage::messageCallback: Pimpl::finishPresentation, onPaintReady.
\* The call records the completed slot and the status it found in it.
DeliverPresentDone ==
    /\ UNCHANGED nativeVars
    /\ UNCHANGED calcVars
    /\ OwnerIdle
    /\ msgQueue # <<>>
    /\ LET s == Head(msgQueue)
           status == presentations[s].status
           release == presentFailed(status)
           ps == IF release THEN ReleasedPresentations(presentations) ELSE presentations
       IN /\ presentations' = [ps EXCEPT ![s] = Reset(@)]
          /\ dc' = IF release THEN ReleasedDC ELSE dc
          /\ colourBrush' = ColourBrushAfter(dc, dc')
          /\ surface' = SurfaceAfter(dc, dc')
          /\ UNCHANGED dpiScalingFactor
          /\ lastCall' = [Call("finishPresentation", status) EXCEPT !.slot = s]
    /\ msgQueue' = Tail(msgQueue)
    /\ UNCHANGED <<presentationIndex, paintedPresentation, bufferBounds, clientRect,
                   resizing, resizeLock, notified, presenterPc, presentation,
                   fullPresentDone, ownerPc, states, frameCounter, presentIssued,
                   bufferDefined>>

(***************************************************************************)
(* The presenter thread: Pimpl::run                                        *)
(***************************************************************************)
\* PresentDoneMessage::createAndPost and the end of one loop iteration
\* (the ScopedTryLock is released)
PostDone(s) ==
    /\ msgQueue' = Append(msgQueue, s)
    /\ resizeLock' = "none"
    /\ presentation' = NoSlot
    /\ presenterPc' = "wait"

\* wait(-1) returns; ScopedTryLock and the resizing test; paintedPresentation.exchange
PresenterWake ==
    /\ UNCHANGED nativeVars
    /\ UNCHANGED calcVars
    /\ Alive
    /\ presenterPc = "wait"
    /\ notified
    /\ notified' = FALSE
    /\ IF resizeLock # "none" \/ resizing
       THEN /\ lastCall' = NoCall
            /\ UNCHANGED <<paintedPresentation, presentation, presenterPc, resizeLock>>
       ELSE IF paintedPresentation = NoSlot
       THEN /\ lastCall' = NoCall
            /\ UNCHANGED <<paintedPresentation, presentation, presenterPc, resizeLock>>
       ELSE /\ presentation' = paintedPresentation
            /\ paintedPresentation' = NoSlot
            /\ resizeLock' = "presenter"
            /\ presenterPc' = "render"
            /\ lastCall' = NoCall
    /\ UNCHANGED <<presentations, presentationIndex, dc, colourBrush, dpiScalingFactor, surface, bufferBounds, clientRect,
                   resizing, fullPresentDone, msgQueue, ownerPc, states,
                   frameCounter, presentIssued, bufferDefined>>

\* the null tests, then the replay of the command list; hr: the result of EndDraw
PresenterRender(hr) ==
    /\ UNCHANGED nativeVars
    /\ UNCHANGED calcVars
    /\ Alive
    /\ presenterPc = "render"
    /\ IF ~dc.threadDeviceContext \/ ~dc.swapChain \/ ~dc.swapChainBuffer
          \/ ~presentations[presentation].commandList
       THEN /\ presentations' = [presentations EXCEPT
                                    ![presentation].status = "E_UNEXPECTED"]
            /\ PostDone(presentation)
            /\ lastCall' = NoCall
       ELSE /\ presentations' = [presentations EXCEPT ![presentation].status = hr]
            /\ presenterPc' = "present"
            /\ lastCall' = NoCall
            /\ UNCHANGED <<msgQueue, resizeLock, presentation>>
    /\ UNCHANGED <<presentationIndex, paintedPresentation, dc, colourBrush, dpiScalingFactor, surface, bufferBounds,
                   clientRect, resizing, notified, fullPresentDone, ownerPc, states,
                   frameCounter, presentIssued, bufferDefined>>

\* the kind of the present call run() issues for a slot
PresentKind(p) ==
    IF fullPresentDone /\ p.dirtyRectangles # {} THEN "dirty" ELSE "full"

\* swapChain->Present1 and the done message; hr: the result of Present1.  When the
\* owning thread released the swap chain after the null tests, the call goes
\* through a null pointer: the process stops, or the call returns some result.
PresenterPresent(hr) ==
    /\ UNCHANGED nativeVars
    /\ UNCHANGED calcVars
    /\ Alive
    /\ presenterPc = "present"
    /\ \/ /\ presentations' = [presentations EXCEPT ![presentation].status = hr]
          /\ fullPresentDone' = SUCCEEDED(hr)
          /\ presentIssued' = [presentIssued EXCEPT ![presentation] = TRUE]
          /\ bufferDefined' = IF PresentKind(presentations[presentation]) = "full"
                                 /\ SUCCEEDED(hr) /\ dc.swapChain
                              THEN TRUE ELSE bufferDefined
          /\ lastCall' = NoCall
          /\ PostDone(presentation)
          /\ UNCHANGED ownerPc
       \/ /\ ~dc.swapChain
          /\ ownerPc' = "crashed"
          /\ lastCall' = NoCall
          /\ UNCHANGED <<presentations, fullPresentDone, presentIssued, bufferDefined,
                         msgQueue, resizeLock, presentation, presenterPc>>
    /\ UNCHANGED <<presentationIndex, paintedPresentation, dc, colourBrush, dpiScalingFactor, surface, bufferBounds,
                   clientRect, resizing, notified, states, frameCounter>>

(***************************************************************************)
(* Graphics-context calls between startAsync/startSync and endAsync/endSync *)
(***************************************************************************)
\* the fills, fonts, opacities and resampling qualities the caller passes
RedFill == [kind |-> "colour", colour |-> "red", opacity |-> "opaque"]
GradientFill == [kind |-> "gradient", colour |-> "none", opacity |-> "opaque"]
FillTypes == {BlackFill, RedFill, GradientFill}
Fonts == {"default", "bold"}
Opacities == {"opaque", "half"}
ResamplingQualities ==
    {"lowResamplingQuality", "mediumResamplingQuality", "highResamplingQuality"}
\* the transforms passed to addTransform: a translation by one, or a rotation
AffineTransforms == {"translation", "rotation"}

InFrame == ownerPc \in {"async", "sync"}
\* currentState, which is states.getLast()
currentState == states[Len(states)]

\* states with currentState replaced
WithCurrentState(sts, s) == [sts EXCEPT ![Len(sts)] = s]

\* removeLast dropping the state below the last one
RemoveLast_KeepsTop(sts) ==
    IF Len(sts) > 1 THEN SubSeq(sts, 1, Len(sts) - 2) \o <<sts[Len(sts)]>> ELSE <<>>

\* OwnedArray::removeLast(1)
RemoveLast(sts) == SubSeq(sts, 1, Len(sts) - 1)

\* what a caller can observe of a state: transform, clip bounds, fill, font and
\* interpolation mode
Semantic(s) ==
    [currentTransform |-> s.currentTransform,
     clipRegion |-> s.clipRegion,
     fillType |-> s.fillType,
     font |-> s.font,
     interpolationMode |-> s.interpolationMode]

\* direct2d::isTransformOnlyTranslationOrScale
isTransformOnlyTranslationOrScale(tr) == ~tr.rotated

\* a call on currentState that leaves the stack's depth alone: s is the new
\* value of currentState, brush what is then set on the shared colour brush
BrushCall(op, ret, s, brush) ==
    /\ InFrame
    /\ opCount < MaxOps
    /\ states # <<>>
    /\ states' = WithCurrentState(states, s)
    /\ deviceLayers' = deviceLayers \o
                          SubSeq(s.pushedLayers, Len(currentState.pushedLayers) + 1,
                                 Len(s.pushedLayers))
    /\ opCount' = opCount + 1
    /\ lastCall' = Call(op, ret)
    /\ colourBrush' = brush
    /\ UNCHANGED <<presentations, presentationIndex, paintedPresentation, dc, dpiScalingFactor, surface,
                   bufferBounds, clientRect, resizing, resizeLock, notified,
                   presenterPc, presentation, fullPresentDone, msgQueue, ownerPc,
                   frameCounter, presentIssued, bufferDefined, layerFault, savedTops,
                   calcVars>>

\* a call on currentState that leaves the shared colour brush alone
StateCall(op, ret, s) == BrushCall(op, ret, s, colourBrush)

\* updateColourBrush setting the colour only
updateColourBrush_ColourOnly(s, brush) ==
    IF dc.colourBrush THEN [brush EXCEPT !.colour = s.fillType.colour] ELSE brush

\* SavedState::updateColourBrush: what is set on the shared colour brush
updateColourBrush(s, brush) ==
    IF dc.colourBrush
    THEN [colour |-> s.fillType.colour, opacity |-> s.fillType.opacity]
    ELSE brush

\* Direct2DLowLevelGraphicsContext::saveState
SaveState ==
    /\ InFrame
    /\ opCount < MaxOps
    /\ states' = Append(states, IF states = <<>> THEN NewSavedState(dc)
                                ELSE CopiedSavedState(currentState))
    /\ savedTops' = IF states = <<>> THEN <<>>
                    ELSE Append(savedTops, Semantic(currentState))
    /\ opCount' = opCount + 1
    /\ lastCall' = Call("saveState", "")
    /\ UNCHANGED <<presentations, presentationIndex, paintedPresentation, dc, colourBrush, dpiScalingFactor, surface,
                   bufferBounds, clientRect, resizing, resizeLock, notified,
                   presenterPc, presentation, fullPresentDone, msgQueue, ownerPc,
                   frameCounter, presentIssued, bufferDefined, deviceLayers,
                   layerFault, calcVars>>

\* Direct2DLowLevelGraphicsContext::restoreState.  The jassert is compiled out of
\* release builds: with one state left the state is removed, getLast() is null
\* and updateColourBrush is called through it: the process stops, or goes on
\* with no current state.  The call records whether the state it removed was
\* the last one, or differed from the one below it, and the pop calls it issued.
RestoreState ==
    /\ InFrame
    /\ opCount < MaxOps
    /\ states # <<>>
    /\ states' = RemoveLast(states)
    /\ savedTops' = IF savedTops = <<>> THEN <<>> ELSE RemoveLast(savedTops)
    /\ deviceLayers' = NativePop(deviceLayers, PopOrder(currentState.pushedLayers)).layers
    /\ layerFault' = (layerFault
                      \/ NativePop(deviceLayers, PopOrder(currentState.pushedLayers)).fault)
    /\ IF Len(states) > 1
       THEN /\ UNCHANGED ownerPc
            /\ colourBrush' = updateColourBrush(states[Len(states) - 1], colourBrush)
       ELSE /\ ownerPc' \in {ownerPc, "crashed"}
            /\ UNCHANGED colourBrush
    /\ opCount' = opCount + 1
    /\ lastCall' = [Call("restoreState",
                            IF Len(states) = 1 THEN "last"
                            ELSE IF Semantic(currentState) # Semantic(states[Len(states) - 1])
                            THEN "changed" ELSE "same")
                       EXCEPT !.pops = PopOrder(currentState.pushedLayers)]
    /\ UNCHANGED <<presentations, presentationIndex, paintedPresentation, dc, dpiScalingFactor, surface,
                   bufferBounds, clientRect, resizing, resizeLock, notified,
                   presenterPc, presentation, fullPresentDone, msgQueue,
                   frameCounter, presentIssued, bufferDefined, calcVars>>

\* a call other than saveState made when currentState is null: the process
\* stops, or the call is lost
CallOnNullState ==
    /\ InFrame
    /\ opCount < MaxOps
    /\ states = <<>>
    /\ ownerPc' \in {ownerPc, "crashed"}
    /\ opCount' = opCount + 1
    /\ lastCall' = Call("nullState", "")
    /\ UNCHANGED <<presentations, presentationIndex, paintedPresentation, dc, colourBrush, dpiScalingFactor, surface,
                   bufferBounds, clientRect, resizing, resizeLock, notified,
                   presenterPc, presentation, fullPresentDone, msgQueue, states,
                   frameCounter, presentIssued, bufferDefined, deviceLayers,
                   layerFault, savedTops, calcVars>>

\* SavedState::clearFill
clearFill(s) == [s EXCEPT !.currentBrush = "null", !.brushOpacity = "none"]

\* setFill clearing the brush whether or not the fill changes
setFill_AlwaysClears(s, f) == clearFill([s EXCEPT !.fillType = f])

\* SavedState::setFill
setFill(s, f) ==
    IF s.fillType # f THEN clearFill([s EXCEPT !.fillType = f]) ELSE s

\* SavedState::clearFont
clearFont(s) == [s EXCEPT !.currentFontFace = "null"]

\* SavedState::setFont
setFont(s, f) ==
    IF s.font # f THEN clearFont([s EXCEPT !.font = f]) ELSE s

\* the name a recorded call gives to the fill it was passed
FillName(f) == IF f.kind = "gradient" THEN "gradient" ELSE f.colour

\* Direct2DLowLevelGraphicsContext::setFill; the call records its argument
SetFill(f) == StateCall("setFill", FillName(f), setFill(currentState, f))

\* Direct2DLowLevelGraphicsContext::setFont; the call records its argument
SetFont(f) == StateCall("setFont", f, setFont(currentState, f))

\* SavedState::setOpacity
setOpacity(s, o) == [s EXCEPT !.fillType.opacity = o]

\* Direct2DLowLevelGraphicsContext::setOpacity; the call records its argument
SetOpacity(o) ==
    BrushCall("setOpacity", o, setOpacity(currentState, o),
              IF currentState.fillType.kind = "colour"
              THEN updateColourBrush(setOpacity(currentState, o), colourBrush)
              ELSE colourBrush)

\* Direct2DLowLevelGraphicsContext::setInterpolationQuality
SetInterpolationQuality(q) ==
    StateCall("setInterpolationQuality", "",
              [currentState EXCEPT !.interpolationMode =
                  CASE q = "lowResamplingQuality" -> "NEAREST_NEIGHBOR"
                    [] q = "mediumResamplingQuality" -> "LINEAR"
                    [] q = "highResamplingQuality" -> "HIGH_QUALITY_CUBIC"])

\* Direct2DLowLevelGraphicsContext::setOrigin, by one unit
SetOrigin ==
    StateCall("setOrigin", "", [currentState EXCEPT !.currentTransform.x = @ + 1])

\* Direct2DLowLevelGraphicsContext::addTransform
AddTransform(tr) ==
    StateCall("addTransform", "",
              IF tr = "translation"
              THEN [currentState EXCEPT !.currentTransform.x = @ + 1]
              ELSE [currentState EXCEPT !.currentTransform.rotated = TRUE])

\* SavedState::pushGeometryClipLayer; geometry: the geometry is not null
pushGeometryClipLayer(s, geometry) ==
    IF geometry THEN PushedLayer(s, dc, "Layer") ELSE s

\* Direct2DLowLevelGraphicsContext::clipToRectangle: the clip region of the
\* state is left as it is
ClipToRectangle(geometry) ==
    StateCall("clipToRectangle", "",
              IF isTransformOnlyTranslationOrScale(currentState.currentTransform)
              THEN PushedLayer(currentState, dc, "AxisAlignedClipLayer")
              ELSE pushGeometryClipLayer(currentState, geometry))

\* Direct2DLowLevelGraphicsContext::clipToRectangleList
ClipToRectangleList(geometry) ==
    StateCall("clipToRectangleList", "", pushGeometryClipLayer(currentState, geometry))

\* Direct2DLowLevelGraphicsContext::excludeClipRectangle
ExcludeClipRectangle(geometry) ==
    StateCall("excludeClipRectangle", "",
              IF dc.commandListDeviceContext
              THEN pushGeometryClipLayer(currentState, geometry)
              ELSE currentState)

\* Direct2DLowLevelGraphicsContext::clipToPath
ClipToPath(geometry) ==
    StateCall("clipToPath", "", pushGeometryClipLayer(currentState, geometry))

\* Direct2DLowLevelGraphicsContext::clipToImageAlpha
ClipToImageAlpha ==
    StateCall("clipToImageAlpha", "",
              IF dc.commandListDeviceContext
              THEN PushedLayer(currentState, dc, "Layer")
              ELSE currentState)

\* Direct2DLowLevelGraphicsContext::beginTransparencyLayer
BeginTransparencyLayer ==
    StateCall("beginTransparencyLayer", "", PushedLayer(currentState, dc, "Layer"))

\* Direct2DLowLevelGraphicsContext::endTransparencyLayer, which does nothing
EndTransparencyLayer ==
    StateCall("endTransparencyLayer", "", currentState)

\* SavedState::createBrush: a gradient brush is created with the opacity the
\* fill has at that moment
createBrush(s) ==
    IF s.currentBrush = "null" /\ dc.commandListDeviceContext
    THEN IF s.fillType.kind = "colour"
         THEN [s EXCEPT !.currentBrush = "colourBrush"]
         ELSE [s EXCEPT !.currentBrush = "gradientBrush",
                        !.brushOpacity = s.fillType.opacity]
    ELSE s

\* SavedState::createBrush: what is then set on the shared colour brush
createBrushColour(s, brush) ==
    IF s.currentBrush = "null" /\ dc.commandListDeviceContext /\ s.fillType.kind = "colour"
    THEN updateColourBrush(s, brush) ELSE brush

\* the colour and opacity of the brush a draw primitive called on state s
\* passes to the device context
BrushDrawnWith(s, brush) ==
    IF createBrush(s).currentBrush = "colourBrush" THEN createBrushColour(s, brush)
    ELSE IF createBrush(s).currentBrush = "gradientBrush"
         THEN [colour |-> "gradient", opacity |-> createBrush(s).brushOpacity]
         ELSE [colour |-> "null", opacity |-> "null"]

\* Direct2DLowLevelGraphicsContext::fillRect
FillRect ==
    BrushCall("fillRect", "", createBrush(currentState),
              createBrushColour(currentState, colourBrush))

\* SavedState::createFont, for a DirectWrite typeface
createFont(s) ==
    IF s.currentFontFace = "null"
    THEN [s EXCEPT !.currentFontFace = s.font,
                   !.fontHeightToEmSizeFactor = "unitsToHeightScaleFactor"]
    ELSE s

\* Direct2DLowLevelGraphicsContext::drawGlyph; the call records the factor that
\* went into glyphRun.fontEmSize when the glyph was drawn
DrawGlyph ==
    LET s == createFont(createBrush(currentState))
    IN BrushCall("drawGlyph",
                 IF dc.commandListDeviceContext THEN s.fontHeightToEmSizeFactor
                 ELSE "",
                 s, createBrushColour(currentState, colourBrush))

DrawNext ==
    \/ SaveState
    \/ RestoreState
    \/ CallOnNullState
    \/ \E f \in FillTypes : SetFill(f)
    \/ \E f \in Fonts : SetFont(f)
    \/ \E o \in Opacities : SetOpacity(o)
    \/ \E q \in ResamplingQualities : SetInterpolationQuality(q)
    \/ SetOrigin
    \/ \E tr \in AffineTransforms : AddTransform(tr)
    \/ \E geometry \in BOOLEAN : ClipToRectangle(geometry)
    \/ \E geometry \in BOOLEAN : ClipToRectangleList(geometry)
    \/ \E geometry \in BOOLEAN : ExcludeClipRectangle(geometry)
    \/ \E geometry \in BOOLEAN : ClipToPath(geometry)
    \/ ClipToImageAlpha
    \/ BeginTransparencyLayer
    \/ EndTransparencyLayer
    \/ DrawGlyph

(***************************************************************************)
(* The DPI scale factor                                                    *)
(***************************************************************************)
ScaleFactors == 1..MaxScale

\* Direct2DLowLevelGraphicsContext::setScaleFactor (Pimpl::setScaleFactor)
SetScaleFactor(scale) ==
    /\ OwnerIdle
    /\ dpiScalingFactor' = scale
    /\ surface' = updateDeviceContextDPI(surface, dc, scale)
    /\ lastCall' = Call("setScaleFactor", "")
    /\ UNCHANGED <<presentations, presentationIndex, paintedPresentation, dc, colourBrush,
                   bufferBounds, clientRect, resizing, resizeLock, notified,
                   presenterPc, presentation, fullPresentDone, msgQueue, ownerPc,
                   states, frameCounter, presentIssued, bufferDefined, nativeVars,
                   calcVars>>

\* the window is resized, the scale factor changes, frames are drawn
ScaleNext ==
    \/ \E scale \in ScaleFactors : SetScaleFactor(scale)
    \/ \E cr \in ClientRects : WindowResized(cr)
    \/ AcquireResizeLock
    \/ \E ok \in BOOLEAN : Resize(ok)
    \/ \E ok \in BOOLEAN : StartSync(ok)
    \/ \E hr \in EndDrawResults, presentOk \in BOOLEAN : EndSync(hr, presentOk)

ScaleSpec == Init /\ [][ScaleNext]_vars

(***************************************************************************)
(* Fills and brushes within one frame                                      *)
(***************************************************************************)
\* A frame opened by startSync on a new context whose device was created; the
\* first state has not drawn yet, or has filled a rectangle.  The calls that
\* touch fills and brushes follow.
BrushInit ==
    /\ presentations = [s \in Slots |-> NewPresentation]
    /\ presentationIndex = 0
    /\ paintedPresentation = NoSlot
    /\ dc = FullDC
    /\ colourBrush = NewColourBrush
    /\ dpiScalingFactor = 1
    /\ surface = NewSurface(1, ClampedClientRect(InitialClientRect))
    /\ clientRect = InitialClientRect
    /\ bufferBounds = ClampedClientRect(InitialClientRect)
    /\ resizing = FALSE
    /\ resizeLock = "none"
    /\ notified = FALSE
    /\ presenterPc = "wait"
    /\ presentation = NoSlot
    /\ fullPresentDone = FALSE
    /\ msgQueue = <<>>
    /\ ownerPc = "sync"
    /\ states \in {<<FirstSavedState(FullDC, InitialClientRect)>>,
                   <<createBrush(FirstSavedState(FullDC, InitialClientRect))>>}
    /\ frameCounter = 1
    /\ presentIssued = [s \in Slots |-> FALSE]
    /\ bufferDefined = FALSE
    /\ deviceLayers = FirstSavedState(FullDC, InitialClientRect).pushedLayers
    /\ layerFault = FALSE
    /\ opCount = 0
    /\ savedTops = <<>>
    /\ lastCall = NoCall
    /\ input = NoInput
    /\ output = NoOutput

BrushNext ==
    \/ SaveState
    \/ RestoreState
    \/ \E f \in FillTypes : SetFill(f)
    \/ \E o \in Opacities : SetOpacity(o)
    \/ FillRect

BrushSpec == BrushInit /\ [][BrushNext]_vars

(***************************************************************************)
(* Clip geometries, evaluated on a grid of pixels                          *)
(***************************************************************************)
\* a translation, as the AffineTransform of a translated state
Translation(dx, dy) == [x |-> dx, y |-> dy]
Translations == {Translation(dx, dy) : dx \in -MaxShift..MaxShift, dy \in -MaxShift..MaxShift}

\* the buffer, and the rectangles passed to excludeClipRectangle: inside the
\* buffer, across its edges, outside it, and empty
GridBounds == Rect(0, 0, GridW, GridH)
ExcludeRects == {Rect(x, y, w, h) : x \in -1..GridW, y \in -1..GridH,
                                    w \in 0..GridW + 1, h \in 0..GridH + 1}

\* the pixels of the buffer and around it, each named by its top-left corner
Pixels == {[x |-> px, y |-> py] : px \in -(MaxShift + 1)..(GridW + MaxShift + 1),
                                  py \in -(MaxShift + 1)..(GridH + MaxShift + 1)}
PixelsOf(r) == {px \in Pixels : /\ r.x <= px.x /\ px.x < RectRight(r)
                                /\ r.y <= px.y /\ px.y < RectBottom(r)}

\* direct2d::pointTransformed, for a translation
pointTransformed(x, y, transform) == [x |-> x + transform.x, y |-> y + transform.y]

\* direct2d::rectToGeometrySink: the closed figure added to the sink
rectToGeometrySink(rect, transform) ==
    <<pointTransformed(rect.x, rect.y, transform),
      pointTransformed(RectRight(rect), rect.y, transform),
      pointTransformed(RectRight(rect), RectBottom(rect), transform),
      pointTransformed(rect.x, RectBottom(rect), transform)>>

\* Pimpl::rectListToPathGeometry: one figure for each rectangle of the list, last
\* rectangle first, every rectangle under the same transform
rectListToPathGeometry(clipRegion, transform, fillMode) ==
    [figures |-> [k \in 1..Len(clipRegion) |->
                     rectToGeometrySink(clipRegion[Len(clipRegion) + 1 - k], transform)],
     fillMode |-> fillMode]

\* RectangleList<int>::addWithoutMerging on a list held in order
addWithoutMerging(list, r) == IF RectIsEmpty(r) THEN list ELSE Append(list, r)

\* a pixel lies inside a rectangular figure
FigureContains(figure, px) ==
    /\ \E k \in 1..Len(figure) : figure[k].x <= px.x
    /\ \E k \in 1..Len(figure) : px.x < figure[k].x
    /\ \E k \in 1..Len(figure) : figure[k].y <= px.y
    /\ \E k \in 1..Len(figure) : px.y < figure[k].y

\* a pixel lies inside a path geometry: under D2D1_FILL_MODE_ALTERNATE when an
\* odd number of figures surround it, under D2D1_FILL_MODE_WINDING (figures
\* all wound the same way) when any does
GeometryContains(geometry, px) ==
    LET around == {k \in 1..Len(geometry.figures) :
                       FigureContains(geometry.figures[k], px)}
    IN IF geometry.fillMode = "ALTERNATE" THEN Cardinality(around) % 2 = 1
       ELSE around # {}

\* Direct2DLowLevelGraphicsContext::excludeClipRectangle: the geometry of the
\* clip layer it pushes
ExcludeGeometry(r, transform, bounds) ==
    rectListToPathGeometry(addWithoutMerging(addWithoutMerging(<<>>, r), bounds),
                           transform, "ALTERNATE")

\* the pixels a fill of the whole buffer reaches through a geometry clip layer
\* (the layer is pushed under the identity transform)
FilledThrough(geometry, bounds) ==
    {px \in PixelsOf(bounds) : GeometryContains(geometry, px)}

\* a window of the grid's size whose device handles exist
ClipInit ==
    /\ Constructed(GridBounds, FullDC)
    /\ input \in [op : {"excludeClipRectangle"}, r : ExcludeRects,
                  transform : Translations]
    /\ output = NoOutput

\* excludeClipRectangle(input.r) on a state translated by input.transform, then
\* a fill of the whole buffer
ExcludeAndFill ==
    /\ input.op = "excludeClipRectangle"
    /\ output = NoOutput
    /\ output' = [op |-> "excludeClipRectangle",
                  filled |-> FilledThrough(ExcludeGeometry(input.r, input.transform,
                                                           bufferBounds),
                                           bufferBounds)]
    /\ UNCHANGED <<programVars, input>>

ClipNext == ExcludeAndFill

ClipSpec == ClipInit /\ [][ClipNext]_vars

(***************************************************************************)
(* Transforms: juce::AffineTransform with integer coefficients             *)
(***************************************************************************)
\* AffineTransform: x' = mat00 x + mat01 y + mat02, y' = mat10 x + mat11 y + mat12
Affine(m00, m01, m02, m10, m11, m12) ==
    [mat00 |-> m00, mat01 |-> m01, mat02 |-> m02,
     mat10 |-> m10, mat11 |-> m11, mat12 |-> m12]
AffineIdentity == Affine(1, 0, 0, 0, 1, 0)
AffineTranslation(dx, dy) == Affine(1, 0, dx, 0, 1, dy)

\* the transforms tried: identity, a translation, a quarter turn, a scale with
\* different factors, a shear, a quarter turn about another point
TransformSamples ==
    {AffineIdentity, AffineTranslation(1, 2), Affine(0, -1, 0, 1, 0, 0),
     Affine(2, 0, 0, 0, 3, 0), Affine(1, 1, 0, 0, 1, 0), Affine(0, -1, 3, 1, 0, 1)}
PointSamples == {[x |-> px, y |-> py] : px \in 0..MaxCoord, py \in 0..MaxCoord}

\* AffineTransform::transformPoint
transformPoint(tr, pt) ==
    [x |-> tr.mat00 * pt.x + tr.mat01 * pt.y + tr.mat02,
     y |-> tr.mat10 * pt.x + tr.mat11 * pt.y + tr.mat12]

\* AffineTransform::followedBy: tr first, then other
followedBy(tr, other) ==
    Affine(other.mat00 * tr.mat00 + other.mat01 * tr.mat10,
           other.mat00 * tr.mat01 + other.mat01 * tr.mat11,
           other.mat00 * tr.mat02 + other.mat01 * tr.mat12 + other.mat02,
           other.mat10 * tr.mat00 + other.mat11 * tr.mat10,
           other.mat10 * tr.mat01 + other.mat11 * tr.mat11,
           other.mat10 * tr.mat02 + other.mat11 * tr.mat12 + other.mat12)

\* AffineTransform::isOnlyTranslation
isOnlyTranslation(tr) ==
    tr.mat01 = 0 /\ tr.mat10 = 0 /\ tr.mat00 = 1 /\ tr.mat11 = 1

\* direct2d::transformToMatrix: the D2D1::Matrix3x2F built from a transform
transformToMatrix(tr) ==
    [m11 |-> tr.mat00, m12 |-> tr.mat10, m21 |-> tr.mat01, m22 |-> tr.mat11,
     dx |-> tr.mat02, dy |-> tr.mat12]

\* D2D1::Matrix3x2F::TransformPoint: the device-space point the device context
\* draws a point at under SetTransform(m) (row vector times matrix)
MatrixTransformPoint(m, pt) ==
    [x |-> pt.x * m.m11 + pt.y * m.m21 + m.dx,
     y |-> pt.x * m.m12 + pt.y * m.m22 + m.dy]

\* addTransform putting the new transform after the state's
addTransform_Appended(stateTransform, transform) ==
    followedBy(stateTransform, transform)

\* Direct2DLowLevelGraphicsContext::addTransform on a state that holds an
\* AffineTransform: transform.followedBy(currentState->transform)
addTransform(stateTransform, transform) ==
    followedBy(transform, stateTransform)

\* RenderingHelpers::TranslationOrTransform, default-constructed
NewTranslationOrTransform ==
    [isOnlyTranslated |-> TRUE, offset |-> [x |-> 0, y |-> 0],
     complexTransform |-> AffineIdentity]

\* TranslationOrTransform::getTransformWith
getTransformWith(tot, userTransform) ==
    IF tot.isOnlyTranslated
    THEN followedBy(userTransform, AffineTranslation(tot.offset.x, tot.offset.y))
    ELSE followedBy(userTransform, tot.complexTransform)

\* TranslationOrTransform::addTransform, for whole-pixel translations
TranslationOrTransformAdd(tot, tr) ==
    IF tot.isOnlyTranslated /\ isOnlyTranslation(tr)
    THEN [tot EXCEPT !.offset = [x |-> @.x + tr.mat02, y |-> @.y + tr.mat12]]
    ELSE [tot EXCEPT !.complexTransform = getTransformWith(tot, tr),
                     !.isOnlyTranslated = FALSE]

\* TranslationOrTransform::getTransform
getTransform(tot) ==
    IF tot.isOnlyTranslated THEN AffineTranslation(tot.offset.x, tot.offset.y)
    ELSE tot.complexTransform

\* a state whose transform is input.e; addTransform is about to be called with
\* input.a and then input.b, and the point input.pt drawn
TransformInit ==
    /\ Constructed(InitialClientRect, FullDC)
    /\ input \in [op : {"addTransform"}, e : TransformSamples, a : TransformSamples,
                  b : TransformSamples, pt : PointSamples]
    /\ output = NoOutput

\* the context whose state holds an AffineTransform: addTransform twice, then a
\* draw call under SetTransform(transformToMatrix(currentState->transform))
AddTransformsAffine ==
    /\ input.op = "addTransform"
    /\ output = NoOutput
    /\ output' = [op |-> "addTransform", state |-> "AffineTransform",
                  point |-> MatrixTransformPoint(
                                transformToMatrix(
                                    addTransform(addTransform(input.e, input.a), input.b)),
                                input.pt)]
    /\ UNCHANGED <<programVars, input>>

\* the context whose state holds a TranslationOrTransform: addTransform twice,
\* then a draw call under SetTransform(transformToMatrix(getTransform()))
AddTransformsTranslationOrTransform ==
    /\ input.op = "addTransform"
    /\ output = NoOutput
    /\ LET e == TranslationOrTransformAdd(NewTranslationOrTransform, input.e)
           ea == TranslationOrTransformAdd(e, input.a)
           eab == TranslationOrTransformAdd(ea, input.b)
       IN output' = [op |-> "addTransform", state |-> "TranslationOrTransform",
                     point |-> MatrixTransformPoint(transformToMatrix(getTransform(eab)),
                                                    input.pt)]
    /\ UNCHANGED <<programVars, input>>

TransformNext ==
    \/ AddTransformsAffine
    \/ AddTransformsTranslationOrTransform

TransformSpec == TransformInit /\ [][TransformNext]_vars

\* setOrigin moving the origin the other way
setOrigin_Negated(s, o) ==
    [transform |-> addTransform(s.transform, AffineTranslation(-o.x, -o.y)),
     clipBounds |-> Rect(s.clipBounds.x - o.x, s.clipBounds.y - o.y,
                         s.clipBounds.w, s.clipBounds.h)]

\* Direct2DLowLevelGraphicsContext::setOrigin on a state that holds an
\* AffineTransform and the clip bounds in user space
setOrigin(s, o) ==
    [transform |-> addTransform(s.transform, AffineTranslation(o.x, o.y)),
     clipBounds |-> Rect(s.clipBounds.x - o.x, s.clipBounds.y - o.y,
                         s.clipBounds.w, s.clipBounds.h)]

\* TranslationOrTransform::setOrigin
TranslationOrTransformSetOrigin(tot, o) ==
    IF tot.isOnlyTranslated
    THEN [tot EXCEPT !.offset = [x |-> @.x + o.x, y |-> @.y + o.y]]
    ELSE [tot EXCEPT !.complexTransform =
                         followedBy(AffineTranslation(o.x, o.y), @)]

\* the clip bounds a state caches
ClipBoundsSamples == {Rect(0, 0, 2, 1), Rect(1, 2, 3, 3)}

\* a state whose transform is input.e and whose clip bounds are input.clip;
\* setOrigin is about to be called with input.o
OriginInit ==
    /\ Constructed(InitialClientRect, FullDC)
    /\ input \in [op : {"setOrigin"}, e : TransformSamples, o : PointSamples,
                  clip : ClipBoundsSamples]
    /\ output = NoOutput

\* setOrigin on the context whose state holds an AffineTransform
SetOriginAffine ==
    /\ input.op = "setOrigin"
    /\ output = NoOutput
    /\ LET s == setOrigin([transform |-> input.e, clipBounds |-> input.clip], input.o)
       IN output' = [op |-> "setOrigin", state |-> "AffineTransform",
                     transform |-> s.transform, clipBounds |-> s.clipBounds]
    /\ UNCHANGED <<programVars, input>>

\* setOrigin on the context whose state holds a TranslationOrTransform and the
\* clip region in device space, which setOrigin leaves alone
SetOriginTranslationOrTransform ==
    /\ input.op = "setOrigin"
    /\ output = NoOutput
    /\ LET e == TranslationOrTransformAdd(NewTranslationOrTransform, input.e)
       IN output' = [op |-> "setOrigin", state |-> "TranslationOrTransform",
                     transform |-> getTransform(TranslationOrTransformSetOrigin(e, input.o)),
                     clipBounds |-> input.clip]
    /\ UNCHANGED <<programVars, input>>

OriginNext ==
    \/ SetOriginAffine
    \/ SetOriginTranslationOrTransform

OriginSpec == OriginInit /\ [][OriginNext]_vars

(***************************************************************************)
(* Paths handed to a geometry sink                                         *)
(***************************************************************************)
PathElements == {"startNewSubPath", "lineTo", "quadraticTo", "cubicTo", "closePath"}

\* the element sequences a Path::Iterator yields: Path::lineTo, quadraticTo and
\* cubicTo start a sub-path when the path is empty, Path::closeSubPath adds no
\* marker to an empty path nor after a close marker; a segment may follow a
\* close marker
PathSamples ==
    {path \in UNION {[1..n -> PathElements] : n \in 0..MaxPathLen} :
        /\ (path # <<>> => path[1] = "startNewSubPath")
        /\ \A k \in 1..(Len(path) - 1) :
               ~(path[k] = "closePath" /\ path[k + 1] = "closePath")}

\* the sink call a segment element is turned into
SegmentCall(element) ==
    CASE element = "lineTo" -> "AddLine"
      [] element = "quadraticTo" -> "AddQuadraticBezier"
      [] element = "cubicTo" -> "AddBezier"

\* direct2d::pathToGeometrySink: the loop over the path's elements.  calls: the
\* sink calls made so far, failed: a jassert(figureStarted) has failed
RECURSIVE pathToGeometrySinkLoop(_, _, _, _)
pathToGeometrySinkLoop(path, figureStarted, calls, failed) ==
    IF path = <<>>
    THEN [calls |-> IF figureStarted THEN Append(calls, "EndFigure") ELSE calls,
          failed |-> failed]
    ELSE LET element == Head(path)
         IN CASE element \in {"lineTo", "quadraticTo", "cubicTo"} ->
                     pathToGeometrySinkLoop(Tail(path), figureStarted,
                                            Append(calls, SegmentCall(element)),
                                            failed \/ ~figureStarted)
              [] element = "closePath" ->
                     IF figureStarted
                     THEN pathToGeometrySinkLoop(Tail(path), FALSE,
                                                 Append(calls, "EndFigure"), failed)
                     ELSE pathToGeometrySinkLoop(Tail(path), figureStarted, calls, failed)
              [] element = "startNewSubPath" ->
                     pathToGeometrySinkLoop(
                         Tail(path), TRUE,
                         (IF figureStarted THEN Append(calls, "EndFigure") ELSE calls)
                             \o <<"BeginFigure">>,
                         failed)

\* direct2d::pathToGeometrySink
pathToGeometrySink(path) == pathToGeometrySinkLoop(path, FALSE, <<>>, FALSE)

\* pathToGeometrySink of the earlier context: closePath ends the figure whether
\* or not one was started, and there is no assertion
RECURSIVE pathToGeometrySinkEarlierLoop(_, _, _)
pathToGeometrySinkEarlierLoop(path, figureStarted, calls) ==
    IF path = <<>>
    THEN [calls |-> IF figureStarted THEN Append(calls, "EndFigure") ELSE calls,
          failed |-> FALSE]
    ELSE LET element == Head(path)
         IN CASE element \in {"lineTo", "quadraticTo", "cubicTo"} ->
                     pathToGeometrySinkEarlierLoop(Tail(path), figureStarted,
                                                   Append(calls, SegmentCall(element)))
              [] element = "closePath" ->
                     pathToGeometrySinkEarlierLoop(Tail(path), FALSE,
                                                   Append(calls, "EndFigure"))
              [] element = "startNewSubPath" ->
                     pathToGeometrySinkEarlierLoop(
                         Tail(path), TRUE,
                         (IF figureStarted THEN Append(calls, "EndFigure") ELSE calls)
                             \o <<"BeginFigure">>)

pathToGeometrySinkEarlier(path) == pathToGeometrySinkEarlierLoop(path, FALSE, <<>>)

\* ID2D1GeometrySink: what is wrong with a sequence of calls made on a sink
\* that is closed after them; open: a figure is open
RECURSIVE SinkFaults(_, _)
SinkFaults(calls, open) ==
    IF calls = <<>> THEN (IF open THEN {"figureLeftOpen"} ELSE {})
    ELSE CASE Head(calls) = "BeginFigure" ->
                  (IF open THEN {"beginWhileOpen"} ELSE {}) \cup SinkFaults(Tail(calls), TRUE)
           [] Head(calls) = "EndFigure" ->
                  (IF open THEN {} ELSE {"endWithoutFigure"}) \cup SinkFaults(Tail(calls), FALSE)
           [] OTHER ->
                  (IF open THEN {} ELSE {"segmentOutsideFigure"})
                      \cup SinkFaults(Tail(calls), open)

\* a path is about to be handed to pathToGeometrySink
PathInit ==
    /\ Constructed(InitialClientRect, FullDC)
    /\ input \in [op : {"pathToGeometrySink"}, path : PathSamples]
    /\ output = NoOutput

\* pathToPathGeometry calling direct2d::pathToGeometrySink
PathToGeometry ==
    /\ input.op = "pathToGeometrySink"
    /\ output = NoOutput
    /\ output' = [op |-> "pathToGeometrySink", variant |-> "direct2d",
                  calls |-> pathToGeometrySink(input.path).calls,
                  failed |-> pathToGeometrySink(input.path).failed]
    /\ UNCHANGED <<programVars, input>>

\* the earlier context calling its pathToGeometrySink
PathToGeometryEarlier ==
    /\ input.op = "pathToGeometrySink"
    /\ output = NoOutput
    /\ output' = [op |-> "pathToGeometrySink", variant |-> "earlier",
                  calls |-> pathToGeometrySinkEarlier(input.path).calls,
                  failed |-> pathToGeometrySinkEarlier(input.path).failed]
    /\ UNCHANGED <<programVars, input>>

PathNext ==
    \/ PathToGeometry
    \/ PathToGeometryEarlier

PathSpec == PathInit /\ [][PathNext]_vars

(***************************************************************************)
(* Font data read through IDWriteFontFileStream                            *)
(***************************************************************************)
\* UINT64 and size_t values, cut to WordBits bits
UInt64Modulus == 2 ^ WordBits
UInt64 == 0..(UInt64Modulus - 1)

\* FontFileStream::ReadFileFragment on font data of numBytes bytes: the result,
\* and *fragmentStart as an offset from rawData.data
ReadFileFragment(numBytes, fileOffset, fragmentSize) ==
    IF (fileOffset + fragmentSize) % UInt64Modulus >= numBytes
    THEN [hr |-> "E_INVALIDARG",
          fragmentStart |-> [null |-> TRUE, offset |-> 0],
          fragmentContext |-> "null"]
    ELSE [hr |-> "S_OK",
          fragmentStart |-> [null |-> FALSE, offset |-> fileOffset],
          fragmentContext |-> "this"]

\* a stream over font data of input.numBytes bytes is about to be asked for
\* input.fragmentSize bytes at input.fileOffset
FontStreamInit ==
    /\ Constructed(InitialClientRect, NullDC)
    /\ input \in [op : {"ReadFileFragment"}, numBytes : UInt64, fileOffset : UInt64,
                  fragmentSize : UInt64]
    /\ output = NoOutput

\* DirectWrite calling FontFileStream::ReadFileFragment
ReadFragment ==
    /\ input.op = "ReadFileFragment"
    /\ output = NoOutput
    /\ LET res == ReadFileFragment(input.numBytes, input.fileOffset, input.fragmentSize)
       IN output' = [op |-> "ReadFileFragment", hr |-> res.hr,
                     fragmentStart |-> res.fragmentStart,
                     fragmentContext |-> res.fragmentContext]
    /\ UNCHANGED <<programVars, input>>

FontStreamNext == ReadFragment

FontStreamSpec == FontStreamInit /\ [][FontStreamNext]_vars

(***************************************************************************)
(* Specification                                                           *)
(***************************************************************************)
OwnerNext ==
    \/ \E r \in RepaintRects : AddDeferredRepaint(r)
    \/ \E ur \in UpdateRegions, ok \in BOOLEAN : StartAsync(ur, ok)
    \/ \E hr \in EndDrawResults : EndAsync(hr)
    \/ \E ok \in BOOLEAN : StartSync(ok)
    \/ \E hr \in EndDrawResults, presentOk \in BOOLEAN : EndSync(hr, presentOk)
    \/ StartResizing
    \/ FinishResizing
    \/ \E cr \in ClientRects : WindowResized(cr)
    \/ AcquireResizeLock
    \/ \E ok \in BOOLEAN : Resize(ok)
    \/ DeliverPresentDone

PresenterNext ==
    \/ PresenterWake
    \/ \E hr \in EndDrawResults : PresenterRender(hr)
    \/ \E hr \in PresentResults : PresenterPresent(hr)

Next == OwnerNext \/ PresenterNext

Spec == Init /\ [][Next]_vars

\* Fair scheduling: the presenter thread runs, a posted message is dispatched
\* once the message thread has returned to its loop often enough (the queue is
\* first-in first-out), an open frame is ended, and whoever resizes or holds
\* owner.resizeLock finishes.
FairSpec ==
    /\ Spec
    /\ WF_vars(PresenterNext)
    /\ SF_vars(DeliverPresentDone)
    /\ WF_vars(\E hr \in EndDrawResults : EndAsync(hr))
    /\ WF_vars(\E hr \in EndDrawResults, presentOk \in BOOLEAN : EndSync(hr, presentOk))
    /\ SF_vars(FinishResizing)
    /\ WF_vars(\E ok \in BOOLEAN : Resize(ok))

\* One paint callback after another on the message thread: a frame is opened,
\* the caller draws, the frame is closed
FrameNext ==
    \/ \E r \in RepaintRects : AddDeferredRepaint(r)
    \/ \E ur \in UpdateRegions, ok \in BOOLEAN : StartAsync(ur, ok)
    \/ \E hr \in EndDrawResults : EndAsync(hr)
    \/ \E ok \in BOOLEAN : StartSync(ok)
    \/ \E hr \in EndDrawResults, presentOk \in BOOLEAN : EndSync(hr, presentOk)
    \/ DrawNext

FrameSpec == Init /\ [][FrameNext]_vars

(***************************************************************************)
(* Properties                                                              *)
(***************************************************************************)
SlotState(s) == presentations[s].state
AlternateSlot == Other(presentationIndex)

\* C1: a call of startAsync made while the alternate slot (presentationIndex ^ 1)
\* is not clear returns false and changes neither slot nor the write index.
C1_StartRenderGate ==
    [][(lastCall'.op = "startAsync" /\ SlotState(AlternateSlot) # "clear")
        => /\ lastCall'.ret = "false"
           /\ presentations' = presentations
           /\ presentationIndex' = presentationIndex]_vars

\* a call was rejected although no resize is going on and areas are queued:
\* the alternate slot still holds the previous frame
C1_Witness ==
    /\ lastCall = Call("startAsync", "false")
    /\ SlotState(AlternateSlot) = "painted"
    /\ ~resizing
    /\ presentations[presentationIndex].paintAreas # {}

\* C2: at most one of the two Presentation slots is in a state other than clear.
C2_AtMostOneOutstanding ==
    Cardinality({s \in Slots : SlotState(s) # "clear"}) <= 1

\* the previous frame is with the presenter thread and the next start was refused
C2_Witness ==
    /\ presentation \in Slots
    /\ SlotState(presentation) = "painted"
    /\ SlotState(Other(presentation)) = "clear"
    /\ presentations[Other(presentation)].paintAreas # {}
    /\ lastCall = Call("startAsync", "false")

(***************************************************************************)
(* Steps, recognised by what they change                                   *)
(***************************************************************************)
\* the done notification at the head of the queue is delivered for slot s
DeliveryStep(s) ==
    /\ msgQueue # <<>>
    /\ Head(msgQueue) = s
    /\ msgQueue' = Tail(msgQueue)

\* a step that runs releaseDeviceContext: from resize when ResizeBuffers fails,
\* or from finishPresentation when the delivered status is an error
ReleaseStep ==
    \/ /\ ownerPc = "locked" /\ ownerPc' = "idle"
       /\ bufferBounds' # bufferBounds
       /\ dc.swapChain /\ ~dc'.swapChain
    \/ \E s \in Slots :
          /\ DeliveryStep(s)
          /\ presentations[s].status \notin {"S_OK", "DXGI_STATUS_OCCLUDED"}

\* finishRenderAsync publishes slot s
PublishStep(s) ==
    /\ ownerPc = "async" /\ ownerPc' = "idle"
    /\ presentationIndex = s /\ presentationIndex' = Other(s)

\* the presenter thread claims slot s (paintedPresentation.exchange)
ClaimStep(s) ==
    /\ presenterPc = "wait" /\ presenterPc' = "render"
    /\ presentation' = s

\* the presenter thread holds slot s, or a done notification for it is queued
WithPresenter(s) == presentation = s
NotificationPending(s) == \E k \in 1..Len(msgQueue) : msgQueue[k] = s

SlotData(p) == <<p.state, p.paintAreas, p.dirtyRectangles, p.commandList>>

\* C3: from the moment the presenter thread claims a slot until the done
\* notification for it is delivered, no operation of the owning thread changes
\* the slot's state, paint areas, dirty rectangles or command list.
C3_NoMutationWhilePresented ==
    [][\A s \in Slots :
          ((WithPresenter(s) \/ NotificationPending(s)) /\ ~DeliveryStep(s))
             => SlotData(presentations'[s]) = SlotData(presentations[s])]_vars

\* the narrower statement: the slot is left alone while the presenter thread
\* is between its claim and the posting of the notification
SlotStableDuringPresentCall ==
    [][\A s \in Slots :
          (WithPresenter(s) /\ presentation' = s)
             => SlotData(presentations'[s]) = SlotData(presentations[s])]_vars

\* the lifecycle of one slot: a step that changes the slot's state takes it from
\* clear to painting, from painting to painted, or from painted, once a present
\* call was issued for the frame, to clear
OrderedTransition(s) ==
    LET a == presentations[s].state
        b == presentations'[s].state
    IN a # b =>
         \/ a = "clear" /\ b = "painting"
         \/ a = "painting" /\ b = "painted"
         \/ a = "painted" /\ b = "clear" /\ presentIssued[s]

C5_PublishedFramePresented ==
    [][\A s \in Slots :
          /\ (paintedPresentation = s /\ paintedPresentation' # s) => ClaimStep(s)
          /\ (SlotState(s) = "painted" /\ presentations'[s].state # "painted")
                => presentIssued[s]]_vars

\* C6: under fair scheduling every published frame is eventually presented; its
\* first step: a slot published by finishRender is eventually taken from the
\* published pointer (claimed by the presenter thread, or withdrawn), unless the
\* process has stopped.
C6_PublishedEventuallyPresented ==
    \A s \in Slots :
        (paintedPresentation = s /\ SlotState(s) = "painted")
            ~> (paintedPresentation # s \/ ownerPc = "crashed")

\* the presenter thread issues Present1 for the slot it holds
PresentStep ==
    /\ presenterPc = "present" /\ presenterPc' = "wait"
    /\ dc.swapChain

\* C7: a present restricted to dirty rectangles is issued only when a full
\* present has already succeeded on the current buffer since the last resize
\* or device recreation.
C7_FirstPresentIsFull ==
    [][(PresentStep /\ PresentKind(presentations[presentation]) = "dirty")
          => bufferDefined]_vars

\* C8: whenever addDeferredRepaint runs, the write slot is in state clear.
C8_RepaintOnlyOntoClearSlot ==
    lastCall.op = "addDeferredRepaint" => lastCall.ret = "clear"

\* a RECT is non-empty and lies within a rectangle
RECTIsEmpty(rc) == rc.right <= rc.left \/ rc.bottom <= rc.top
RECTWithin(rc, b) ==
    /\ rc.left >= b.x /\ rc.top >= b.y
    /\ rc.right <= RectRight(b) /\ rc.bottom <= RectBottom(b)

\* C9: every rectangle in the dirty-rectangle list of a published (painted) slot
\* is non-empty and contained within the buffer bounds recorded for that frame.
C9_DirtyRectanglesWithinBounds ==
    \A s \in Slots :
        SlotState(s) = "painted" =>
            \A rc \in presentations[s].dirtyRectangles :
                ~RECTIsEmpty(rc) /\ RECTWithin(rc, presentations[s].bufferBounds)

\* a published frame whose queued area reached past the buffer and was clipped
C9_Witness ==
    \E s \in Slots :
        /\ SlotState(s) = "painted"
        /\ paintedPresentation = s
        /\ Rect(0, 1, 1, 3) \in presentations[s].paintAreas
        /\ rectangleToRECT(Rect(0, 1, 1, 2)) \in presentations[s].dirtyRectangles
        /\ presentations[s].bufferBounds = Rect(0, 0, maxSize, 3)

\* rectangle r, where it is not empty, lies within one of the RECTs
Covered(r, rects) ==
    RectIsEmpty(r) \/ \E rc \in rects : RECTWithin(rectangleToRECT(r), RECTToRectangle(rc))

\* steps that clear queued paint areas
FinishResizingStep == resizing /\ ~resizing'
StartSyncStep == ownerPc = "idle" /\ ownerPc' = "sync"

\* a slot's queued areas, restricted to the buffer bounds, are all covered by the
\* dirty rectangles the slot is published with
PublishedCovered(s) ==
    (PublishStep(s) /\ presentations'[s].state = "painted")
        => \A a \in presentations[s].paintAreas :
               Covered(RectGetIntersection(a, bufferBounds),
                       presentations'[s].dirtyRectangles)

C11_EndDrawFailureReleases ==
    [][(lastCall'.op = "EndDraw" /\ FAILED(lastCall'.ret))
          => /\ dc' = NullDC
             /\ paintedPresentation' = paintedPresentation
             /\ presentationIndex' = presentationIndex]_vars

\* C12: a published slot is handed off exactly once: finishRenderAsync stores a
\* slot into the published pointer only when the pointer is null, and the
\* presenter's claim takes the slot out of the pointer (exchange with null).
C12_SingleHandoff ==
    [][\A s \in Slots :
          /\ (PublishStep(s) /\ paintedPresentation' = s) => paintedPresentation = NoSlot
          /\ ClaimStep(s) => (paintedPresentation = s /\ paintedPresentation' = NoSlot)]_vars

\* C13: while the resizing flag is set, startAsync returns false, starts no paint,
\* pushes no saved state and changes no Presentation slot.
C13_ResizingBlocksStart ==
    [][(lastCall'.op = "startAsync" /\ resizing)
          => /\ lastCall'.ret = "false"
             /\ presentations' = presentations
             /\ states' = states
             /\ ownerPc' = "idle"
             /\ frameCounter' = frameCounter]_vars

\* a start was refused only because of the flag: both slots are clear, areas
\* are queued on the write slot and the device exists
C13_Witness ==
    /\ lastCall = Call("startAsync", "false")
    /\ resizing
    /\ \A s \in Slots : SlotState(s) = "clear"
    /\ presentations[presentationIndex].paintAreas # {}
    /\ dc.commandListDeviceContext

\* the handles Pimpl::run reads
PresenterHandles(d) == <<d.threadDeviceContext, d.swapChain, d.swapChainBuffer>>

\* C14: the presenter thread never uses a surface handle while the owning thread
\* releases or replaces it: between the presenter's null tests and its Present1
\* call no step changes the device context, swap chain or swap-chain buffer.
C14_HandlesStableDuringPresent ==
    [][presenterPc = "present" => PresenterHandles(dc') = PresenterHandles(dc)]_vars


SaveStateStep == lastCall'.op = "saveState" /\ states # <<>>

\* C16: saveState pushes a state whose transform, clip bounds, fill, font and
\* interpolation mode equal those of the previous top, and whose realized brush
\* and font face are null until they are first used.
C16_SaveStateCopiesUnrealized ==
    [][SaveStateStep
          => /\ Semantic(states'[Len(states')]) = Semantic(currentState)
             /\ states'[Len(states')].currentBrush = "null"
             /\ states'[Len(states')].currentFontFace = "null"]_vars

\* a glyph is never drawn with the em-size factor left at its initial 1.0
GlyphDrawnWithTypefaceFactor == lastCall # Call("drawGlyph", "1.0")

C18_RootStateNeverPopped ==
    [][(lastCall'.op = "restoreState" /\ Len(states) = 1)
          => /\ states' = states
             /\ deviceLayers' = deviceLayers
             /\ ownerPc' = ownerPc]_vars

\* the layers the live states have pushed, oldest first
RECURSIVE AllPushedLayers(_)
AllPushedLayers(sts) ==
    IF sts = <<>> THEN <<>>
    ELSE AllPushedLayers(RemoveLast(sts)) \o sts[Len(sts)].pushedLayers

\* C19: clip and transparency layers are popped from the device context in the
\* reverse of the order they were pushed, an axis-aligned clip by
\* PopAxisAlignedClip and any other layer by PopLayer, and destroying a state
\* pops exactly the layers that state pushed: no pop ever meets a layer of the
\* other kind or an empty stack, and the device context holds exactly the layers
\* of the live states.
C19_LayersPoppedLIFO ==
    /\ ~layerFault
    /\ deviceLayers = AllPushedLayers(states)

\* restoreState has just popped the transparency layer of the state it removed
\* by PopLayer, and the axis-aligned clip of the state below is still pushed
C19_Witness ==
    /\ lastCall.op = "restoreState"
    /\ lastCall.ret # "last"
    /\ lastCall.pops = <<"Layer">>
    /\ deviceLayers = <<"AxisAlignedClipLayer">>
    /\ Len(states) = 1

\* a call of Pimpl::resize returns
ResizeStep == ownerPc = "locked" /\ ownerPc' = "idle"

\* C20: resize is idempotent: a call of resize leaves the buffer bounds equal to
\* the clamped client rectangle, nothing but resize changes the buffer bounds,
\* and a call that finds them equal issues no ResizeBuffers and changes neither
\* the device handles, the swap chain buffer's contents, the slots, the
\* published pointer, the write index nor the buffer bounds.
C20_ResizeIdempotent ==
    [][/\ ResizeStep
          => /\ bufferBounds' = ClampedClientRect(clientRect)
             /\ bufferBounds = ClampedClientRect(clientRect)
                   => UNCHANGED <<dc, bufferDefined, presentations, paintedPresentation,
                                  presentationIndex, bufferBounds, states>>
       /\ ~ResizeStep => bufferBounds' = bufferBounds]_vars

\* resize has just returned at its test, for a window whose swap chain an
\* earlier call of resize had reallocated to bounds other than the initial ones
C20_Witness ==
    /\ lastCall = Call("resize", "unchanged")
    /\ dc.swapChain /\ dc.swapChainBuffer
    /\ bufferBounds = ClampedClientRect(clientRect)
    /\ bufferBounds # ClampedClientRect(InitialClientRect)

\* C23: finishRender never flips a slot to painted, or publishes it, with an
\* empty dirty-rectangle list: when no paint area intersects the buffer bounds
\* the slot is not published.
C23_NeverPublishedEmpty ==
    [][\A s \in Slots :
          (PublishStep(s) /\ presentations'[s].state = "painted")
              => presentations'[s].dirtyRectangles # {}]_vars

\* endAsync returns
EndAsyncStep == ownerPc = "async" /\ ownerPc' = "idle"

\* C24: a started paint always completes: when endAsync returns, the slot that
\* was being painted is no longer in state painting, and a startAsync that
\* returns true never finds its write slot in state painting.
C24_StartedPaintCompletes ==
    [][/\ EndAsyncStep => presentations'[presentationIndex].state # "painting"
       /\ (lastCall'.op = "startAsync" /\ lastCall'.ret = "true")
             => presentations[presentationIndex].state # "painting"]_vars

\* a step of the presenter thread: it moves on in run(), or wakes up and goes
\* back to wait, or stops the process at Present1
PresenterStep ==
    \/ presenterPc' # presenterPc
    \/ notified /\ ~notified'
    \/ presenterPc = "present" /\ ownerPc # "crashed" /\ ownerPc' = "crashed"

\* C25: present failures reach the owning thread only through the slot's status:
\* when the done notification for a slot is delivered, the owning thread
\* releases the device context (all handles null, the other slot reset too) if
\* the status is neither S_OK nor DXGI_STATUS_OCCLUDED, and otherwise leaves the
\* handles and the other slot alone; no step of the presenter thread changes a
\* device handle or a slot's state, paint areas, dirty rectangles or command list.
C25_FailureOnlyThroughStatus ==
    [][/\ \A s \in Slots :
             DeliveryStep(s)
                => IF presentations[s].status \in {"S_OK", "DXGI_STATUS_OCCLUDED"}
                   THEN /\ dc' = dc
                        /\ presentations'[Other(s)] = presentations[Other(s)]
                   ELSE /\ dc' = NullDC
                        /\ SlotData(presentations'[Other(s)]) =
                              SlotData(Reset(presentations[Other(s)]))
       /\ PresenterStep
             => /\ dc' = dc
                /\ \A s \in Slots :
                      SlotData(presentations'[s]) = SlotData(presentations[s])]_vars

\* a notification carrying DXGI_STATUS_OCCLUDED has just been delivered and the
\* device is still there
C25_Witness ==
    /\ lastCall.op = "finishPresentation"
    /\ lastCall.ret = "DXGI_STATUS_OCCLUDED"
    /\ dc = FullDC
    /\ presenterPc = "wait"

\* the presenter thread has called Present1 for slot s and posts the done message
PresentedStep(s) ==
    /\ presenterPc = "present" /\ presenterPc' = "wait"
    /\ presentation = s

\* C26: a failure of the presenter's command-list replay is reported: when
\* EndDraw on the thread device context failed for a slot, the status the slot
\* carries when its done message is posted is a failure status, whatever
\* Present1 returned.
C26_ReplayFailureReported ==
    [][\A s \in Slots :
          (PresentedStep(s) /\ FAILED(presentations[s].status))
              => FAILED(presentations'[s].status)]_vars

\* C27: whenever the presenter thread claims a slot from the published pointer,
\* the slot is in state painted and its command list is not null.
C27_ClaimedSlotIsPainted ==
    [][\A s \in Slots :
          ClaimStep(s) => /\ presentations[s].state = "painted"
                          /\ presentations[s].commandList]_vars

\* C28: no painted slot is orphaned: a slot in state painted is referenced by
\* the published pointer, is held by the presenter thread, or has a done
\* notification pending.
C28_NoPaintedSlotOrphaned ==
    \A s \in Slots :
        SlotState(s) = "painted"
            => \/ paintedPresentation = s
               \/ WithPresenter(s)
               \/ NotificationPending(s)

\* C29: when onPaintReady is invoked from a present-done notification, the
\* completed slot has already been reset to clear: a startAsync issued from the
\* callback is not rejected by isReadyToPaint on account of that slot.
C29_CompletedSlotClearAtCallback ==
    [][\A s \in Slots :
          DeliveryStep(s)
             => /\ presentations'[s].state = "clear"
                /\ (Other(presentationIndex') = s) => isReadyToPaint']_vars

\* the notification of the alternate slot, presented without error, has just
\* been delivered; areas are queued, no resize is going on, and the gate is open
C29_Witness ==
    /\ lastCall.op = "finishPresentation"
    /\ lastCall.ret = "S_OK"
    /\ lastCall.slot = AlternateSlot
    /\ presentIssued[AlternateSlot]
    /\ isReadyToPaint
    /\ ~resizing
    /\ presentations[presentationIndex].paintAreas # {}
    /\ dc = FullDC

\* the states below the top one
LowerStates(sts) == SubSeq(sts, 1, Len(sts) - 1)

\* C30: setFill and setFont change only the top state and invalidate the
\* realized object only on change: setFill(f) leaves the top state with fill f
\* and clears its brush handle when f differs from the fill it had, and
\* otherwise leaves the handle as it is; setFont(f) does the same with the font
\* and the font-face handle; neither changes anything else in the top state,
\* nor any other state of the stack.
C30_SetFillSetFontOnlyOnChange ==
    [][/\ \A f \in FillTypes :
             (lastCall'.op = "setFill" /\ lastCall'.ret = FillName(f))
                => /\ Len(states') = Len(states)
                   /\ LowerStates(states') = LowerStates(states)
                   /\ states'[Len(states')] =
                         [currentState EXCEPT
                             !.fillType = f,
                             !.currentBrush =
                                 IF f # currentState.fillType THEN "null" ELSE @,
                             !.brushOpacity =
                                 IF f # currentState.fillType THEN "none" ELSE @]
       /\ \A f \in Fonts :
             (lastCall'.op = "setFont" /\ lastCall'.ret = f)
                => /\ Len(states') = Len(states)
                   /\ LowerStates(states') = LowerStates(states)
                   /\ states'[Len(states')] =
                         [currentState EXCEPT
                             !.font = f,
                             !.currentFontFace =
                                 IF f # currentState.font THEN "null" ELSE @]]_vars

\* setFont has just changed the font of a saved state whose brush and font face
\* were realized: its font face is cleared, its brush is kept, and the state
\* below still has its font face
C30_Witness ==
    /\ lastCall.op = "setFont"
    /\ Len(states) = 2
    /\ currentState.font # states[1].font
    /\ currentState.currentFontFace = "null"
    /\ currentState.currentBrush # "null"
    /\ states[1].currentFontFace # "null"

\* a rectangle moved by a translation
RectTranslated(r, transform) == Rect(r.x + transform.x, r.y + transform.y, r.w, r.h)

ExcludeDone == output.op = "excludeClipRectangle"

\* C21: excludeClipRectangle(r) followed by a fill over the full buffer fills
\* exactly the buffer bounds minus r, r placed by the current transform of the
\* top state, for every rectangle r and every translation.
C21_ExcludeFillsBoundsMinusR ==
    ExcludeDone
        => output.filled = PixelsOf(bufferBounds)
                              \ PixelsOf(RectTranslated(input.r, input.transform))

\* under the identity transform the fill is the buffer bounds minus r
ExcludeExactUntranslated ==
    (ExcludeDone /\ input.transform = Translation(0, 0))
        => output.filled = PixelsOf(bufferBounds) \ PixelsOf(input.r)

\* C22: after addTransform(A) then addTransform(B) on a state whose transform is
\* E, a point p drawn through the state's transform lands on the device-space
\* point reached by applying B, then A, then E to p.
C22_NewestTransformFirst ==
    output.op = "addTransform"
        => output.point = transformPoint(input.e,
                              transformPoint(input.a, transformPoint(input.b, input.pt)))

\* the point was mapped through two transforms that do not commute, on a state
\* that was itself transformed
C22_Witness ==
    /\ output.op = "addTransform"
    /\ input.e # AffineIdentity
    /\ ~isOnlyTranslation(input.a)
    /\ output.point # transformPoint(input.e,
                          transformPoint(input.b, transformPoint(input.a, input.pt)))

\* the top state's fill is a solid colour and a draw primitive called now would
\* reach the device context
DrawsSolid ==
    /\ InFrame
    /\ states # <<>>
    /\ dc.commandListDeviceContext
    /\ currentState.fillType.kind = "colour"

\* C31: whenever a draw primitive is issued while the top state's fill is a
\* solid colour, the brush it passes is the shared colour brush carrying that
\* fill's colour and opacity, whatever saveState, restoreState, setFill and
\* setOpacity calls came before.
C31_SharedBrushMatchesTop ==
    DrawsSolid
        => BrushDrawnWith(currentState, colourBrush) =
              [colour |-> currentState.fillType.colour,
               opacity |-> currentState.fillType.opacity]

\* restoreState has just returned to a state whose brush handle was realized,
\* from a state that had set another colour or opacity on the shared brush
C31_Witness ==
    /\ DrawsSolid
    /\ lastCall.op = "restoreState"
    /\ lastCall.ret = "changed"
    /\ currentState.currentBrush = "colourBrush"
    /\ opCount = MaxOps

\* setOpacity(o) was the last call
OpacitySet(o) == lastCall.op = "setOpacity" /\ lastCall.ret = o

\* C32: after setOpacity(o) the brush the next draw primitive passes has
\* opacity o, for a solid colour as for a gradient whose brush had been created
\* before the call.
C32_BrushHasOpacitySet ==
    \A o \in Opacities :
        (OpacitySet(o) /\ InFrame /\ states # <<>> /\ dc.commandListDeviceContext)
            => BrushDrawnWith(currentState, colourBrush).opacity = o

\* setScaleFactor(scale) returns
SetScaleFactorStep(scale) ==
    lastCall'.op = "setScaleFactor" /\ dpiScalingFactor' = scale

\* C33: setScaleFactor(s) updates the DPI scale and the device DPI, and when it
\* returns with a swap chain present the swap chain's buffers have the pixel
\* size of the logical buffer bounds times s, also when the window bounds did
\* not change.
C33_ScaleFactorResizesSwapChain ==
    [][\A scale \in ScaleFactors :
          (SetScaleFactorStep(scale) /\ dc'.swapChain)
             => /\ surface'.dpi = 96 * scale
                /\ surface'.width = bufferBounds'.w * scale
                /\ surface'.height = bufferBounds'.h * scale]_vars

\* endAsync or endSync returns
EndFrameStep == ownerPc \in {"async", "sync"} /\ ownerPc' \in {"idle", "crashed"}

\* C34: endAsync and endSync destroy every saved state, popping all of their
\* clip and transparency layers in reverse order, before the drawing is ended:
\* EndDraw meets a device context with no layer left on it and no pop has met a
\* layer of the wrong kind, and afterwards there is no saved state.
C34_LayersPoppedBeforeEndDraw ==
    [][EndFrameStep
          => /\ ~layerFault'
             /\ deviceLayers' = <<>>
             /\ states' = <<>>]_vars

\* endAsync has popped a transparency layer of a saved state and then the clip
\* of the first state, and ended the drawing after them
C34_Witness ==
    /\ lastCall.op = "EndDraw"
    /\ lastCall.pops = <<"Layer", "AxisAlignedClipLayer", "EndDraw">>
    /\ opCount > 1
    /\ states = <<>>
    /\ deviceLayers = <<>>
    /\ ~layerFault

\* setOrigin has been applied
OriginSet == output.op = "setOrigin"

\* C35: setOrigin(p) is equivalent to addTransform(translate(-p)): the state's
\* composed transform after setOrigin(p) equals its transform after addTransform
\* of the translation by -p.
C35_SetOriginIsNegatedTranslation ==
    OriginSet
        => output.transform = addTransform(input.e, AffineTranslation(-input.o.x, -input.o.y))

\* C35, as the code has it: the state's composed transform after setOrigin(p)
\* equals its transform after addTransform of the translation by p, and where
\* the clip bounds are cached in user space they are moved by -p, so that they
\* still cover the same device-space points.
C35_SetOriginIsTranslation ==
    OriginSet
        => /\ output.transform = addTransform(input.e, AffineTranslation(input.o.x, input.o.y))
           /\ output.state = "AffineTransform"
                 => /\ output.clipBounds.w = input.clip.w
                    /\ output.clipBounds.h = input.clip.h
                    /\ transformPoint(output.transform,
                                      [x |-> output.clipBounds.x, y |-> output.clipBounds.y])
                          = transformPoint(input.e, [x |-> input.clip.x, y |-> input.clip.y])

\* setOrigin moved the origin of a rotated state by a point off both axes
C35_Witness ==
    /\ OriginSet
    /\ output.state = "TranslationOrTransform"
    /\ ~isOnlyTranslation(input.e)
    /\ input.o.x > 0
    /\ input.o.y > 0
    /\ output.transform # input.e

\* pathToGeometrySink has returned
PathDone == output.op = "pathToGeometrySink"

\* C36: pathToGeometrySink emits a well-formed figure sequence for any sequence
\* of path elements: BeginFigure is never issued while a figure is open,
\* EndFigure never without an open figure, and no figure is left open when the
\* function returns.
C36_FiguresWellFormed ==
    PathDone
        => SinkFaults(output.calls, FALSE)
              \cap {"beginWhileOpen", "endWithoutFigure", "figureLeftOpen"} = {}

\* the same, for direct2d::pathToGeometrySink alone
FiguresWellFormedDirect2d ==
    (PathDone /\ output.variant = "direct2d")
        => SinkFaults(output.calls, FALSE)
              \cap {"beginWhileOpen", "endWithoutFigure", "figureLeftOpen"} = {}

\* C37: in direct2d::pathToGeometrySink, segment elements are added to the sink
\* only while a figure is open: no jassert(figureStarted) fails, for every
\* element sequence the path iterator can yield.
C37_SegmentsInsideFigure ==
    (PathDone /\ output.variant = "direct2d")
        => /\ ~output.failed
           /\ "segmentOutsideFigure" \notin SinkFaults(output.calls, FALSE)

\* ReadFileFragment has returned
FragmentRead == output.op = "ReadFileFragment"

\* C38: ReadFileFragment returns S_OK with fragmentStart = data + fileOffset for
\* every request that lies within the font data (fileOffset + fragmentSize <=
\* numBytes, a read of the whole file included), and E_INVALIDARG with null
\* outputs exactly when the request extends past the end; the sum is the
\* mathematical one, so a sum that wraps around is a request past the end.
C38_FragmentWithinData ==
    FragmentRead
        => IF input.fileOffset + input.fragmentSize <= input.numBytes
           THEN /\ output.hr = "S_OK"
                /\ output.fragmentStart = [null |-> FALSE, offset |-> input.fileOffset]
           ELSE /\ output.hr = "E_INVALIDARG"
                /\ output.fragmentStart.null
                /\ output.fragmentContext = "null"

\* a request past the end is never accepted, as long as the sum does not wrap
PastEndRejectedWithoutWrap ==
    (FragmentRead /\ input.fileOffset + input.fragmentSize < UInt64Modulus
                  /\ input.fileOffset + input.fragmentSize > input.numBytes)
        => output.hr = "E_INVALIDARG"

\* a request whose sum wraps around is never accepted
WrappedSumRejected ==
    (FragmentRead /\ input.fileOffset + input.fragmentSize >= UInt64Modulus)
        => output.hr = "E_INVALIDARG"

====
